---- MODULE Spec2Model ----
(***************************************************************************)
(* A model of the ocs-monkey workload generator: the event Dispatcher      *)
(* (src/event/dispatcher.py), its OneShot and Periodic events              *)
(* (src/event/periodic.py), and the OSIO Creator and Lifecycle events      *)
(* (src/osio.py) that run on it against the cluster.                       *)
(*                                                                         *)
(* Time is the wall clock time.time() in whole seconds.  The annotations   *)
(* of a Deployment hold str(float); float(str(x)) == x in Python 3, so the *)
(* model keeps the numbers.                                                *)
(***************************************************************************)
EXTENDS Integers, Sequences, FiniteSets, TLC

VARIABLES
    now,        \* the wall clock, time.time()
    queue,      \* Dispatcher._event_queue: the heap list of queue.PriorityQueue
    pc,         \* position of Dispatcher.run(): pop, exec, returned, raised
    cur,        \* run()'s local `event`
    tnow,       \* run()'s local `now`
    log,        \* history: one record per call of Event.execute()
    nextId,     \* history: identity of the next Event object constructed
    stalls,     \* number of processing delays so far
    ret,        \* the list the last execute() returned
    calls,      \* per action function: number of invocations
    trues,      \* per action function: number of True results
    seeded,     \* the objects passed to Dispatcher.add() before run()
    deploys,    \* cluster: Deployments by name
    pvcs,       \* cluster: PersistentVolumeClaims by name
    ops,        \* the mutating API calls of the last execute()
    tick,       \* history: what the last Lifecycle.execute() read and drew
    created,    \* number of Creator.execute() calls so far
    restarts,   \* number of restarts of the workload generator so far
    flips,      \* history: per Deployment, the clock of its last two flips
    made,       \* history: the uids of the workloads a Creator has made and no
                \* destroy has wholly deleted
    active_since,  \* history: per Deployment, the clock of the tick that last
                \* made it active: its first tick, or its last flip to active
    cpc,        \* position of chaos_runner.main()
    failure_types,   \* main()'s list of FailureType prototypes, in its order
    idx,        \* get_failure(): position of its for loop in the list
    gets,       \* history: the get() calls of the last get_failure()
    got,        \* history: how the last get_failure() ended
    fail_instance,   \* main()'s local fail_instance
    pending_repairs, \* main()'s list of outstanding failures
    time_remaining,  \* await_mitigation()'s local
    trace,      \* history: invoke(), mitigated() and repair() calls since the
                \* last pause of main()
    health,     \* cluster: status.ceph.health of the CephCluster object
    pods,       \* cluster: the Pods of each Deployment of the storage system
    ready_replicas,  \* cluster: status.ready_replicas of each such Deployment
    podseq,     \* cluster: the number of Pods made so far
    kpc,        \* position of kube.call(): call, returned, raised
    codes,      \* call()'s local `codes`
    given,      \* whether the caller passed `codes`
    responses,  \* history: the status of each attempt of the call
    slept,      \* seconds call() has slept
    result,     \* what call() gave its caller
    namespaces, \* cluster: the names of the Namespaces
    nsret,      \* history: the last create_namespace() and how it ended
    hpc,        \* position of the caller of CephCluster.is_healthy()
    frames,     \* the stack of is_healthy() calls: the locals of each
    hret,       \* what is_healthy() gave its caller
    observed,   \* history: each read of the CephCluster object and its result
    sleeps,     \* history: the seconds is_healthy() has slept
    manifests   \* history: what each call of _get_workload() returned

dispVars == <<now, queue, pc, cur, tnow, log, nextId, stalls, ret>>
fnVars == <<calls, trues, seeded>>
osioVars == <<deploys, pvcs, ops, tick, created, restarts, flips, made, active_since>>
chaosVars == <<cpc, failure_types, idx, gets, got, fail_instance, pending_repairs,
               time_remaining, trace, health, pods, ready_replicas, podseq>>
kubeVars == <<kpc, codes, given, responses, slept, result, namespaces, nsret>>
oracleVars == <<hpc, frames, hret, observed, sleeps>>
factoryVars == <<manifests>>
vars == <<now, queue, pc, cur, tnow, log, nextId, stalls, ret,
          calls, trues, seeded, deploys, pvcs, ops, tick, created, restarts, flips,
          made, active_since, cpc, failure_types, idx, gets, got, fail_instance, pending_repairs,
          time_remaining, trace, health, pods, ready_replicas, podseq,
          kpc, codes, given, responses, slept, result, namespaces, nsret,
          hpc, frames, hret, observed, sleeps, manifests>>

(***************************************************************************)
(* Bounds of the model.                                                    *)
(***************************************************************************)
\* Largest number of Events added before run() in the Dispatcher runs.
MaxInit == 3
\* Largest number of True results of one Periodic action function.
MaxTrue == 2
\* Largest number of Periodic events among them.
MaxPeriodic == 1
\* Largest number of processing delays in one run.
MaxStalls == 1
\* Largest number of workloads the Creator creates.
MaxCreates == 1
\* Largest number of restarts of the workload generator.
MaxRestarts == 1

\* `when` of a seeded OneShot.
Whens == {0, 1, 3}
\* Length of one processing delay, in seconds.
StallSteps == {2}
\* Interval of a seeded Periodic.
Intervals == {0, 2}

NoEvent == [id |-> 0, when |-> 0, kind |-> "None", fn |-> 0, interval |-> 0, name |-> 0]

NoTick == [name |-> 0, branch |-> "none", t0 |-> 0, t1 |-> 0, t2 |-> 0, d |-> 0, was |-> 0,
           ready |-> 0, exc |-> "none"]

Max(a, b) == IF a >= b THEN a ELSE b

SeqToSet(s) == {s[i] : i \in 1..Len(s)}

(***************************************************************************)
(* Event ordering and the priority queue.                                  *)
(***************************************************************************)
\* A comparison written the wrong way round.
EventGt(a, b) == a.when > b.when

\* Event.__lt__
EventLt(a, b) == a.when < b.when

\* heapq._siftdown, the loop: move newitem up from pos while it is less than
\* its parent.
RECURSIVE SiftdownLoop(_, _, _, _)
SiftdownLoop(heap, startpos, pos, newitem) ==
    IF pos > startpos /\ EventLt(newitem, heap[pos \div 2])
    THEN SiftdownLoop([heap EXCEPT ![pos] = heap[pos \div 2]], startpos, pos \div 2, newitem)
    ELSE [heap EXCEPT ![pos] = newitem]

Siftdown(heap, startpos, pos) == SiftdownLoop(heap, startpos, pos, heap[pos])

\* heapq._siftup, the loop: bubble the smaller child up until a leaf.
RECURSIVE SiftupLoop(_, _)
SiftupLoop(heap, pos) ==
    LET childpos == 2 * pos
        rightpos == childpos + 1
    IN  IF childpos <= Len(heap)
        THEN LET c == IF rightpos <= Len(heap) /\ ~EventLt(heap[childpos], heap[rightpos])
                      THEN rightpos ELSE childpos
             IN  SiftupLoop([heap EXCEPT ![pos] = heap[c]], c)
        ELSE <<heap, pos>>

Siftup(heap, pos) ==
    LET newitem == heap[pos]
        r == SiftupLoop(heap, pos)
    IN  Siftdown([r[1] EXCEPT ![r[2]] = newitem], pos, r[2])

\* PriorityQueue.put -> heapq.heappush
Heappush(heap, item) == Siftdown(Append(heap, item), 1, Len(heap) + 1)

\* PriorityQueue.get_nowait -> heapq.heappop: <<item, heap>>
Heappop(heap) ==
    LET lastelt == heap[Len(heap)]
        rest == SubSeq(heap, 1, Len(heap) - 1)
    IN  IF rest # <<>>
        THEN <<rest[1], Siftup([rest EXCEPT ![1] = lastelt], 1)>>
        ELSE <<lastelt, rest>>

\* An add() that enqueues only the first of the events it is given.
AddFirstOnly(heap, events) ==
    IF events = <<>> THEN heap ELSE Heappush(heap, Head(events))

\* Dispatcher.add(*events)
RECURSIVE Add(_, _)
Add(heap, events) ==
    IF events = <<>> THEN heap
    ELSE Add(Heappush(heap, Head(events)), Tail(events))

(***************************************************************************)
(* Event constructors.                                                     *)
(***************************************************************************)
\* OneShot(when, action)
OneShot(id, when, fn) ==
    [id |-> id, when |-> when, kind |-> "OneShot", fn |-> fn, interval |-> 0, name |-> 0]

\* Periodic(interval, action), constructed at clock time t
Periodic(id, t, interval, fn) ==
    [id |-> id, when |-> t + interval, kind |-> "Periodic", fn |-> fn,
     interval |-> interval, name |-> 0]

(***************************************************************************)
(* Dispatcher.run()                                                        *)
(***************************************************************************)
\* Processing overhead, or the process not being scheduled: the clock moves
\* before execute() begins.
Stall ==
    /\ pc = "exec"
    /\ stalls < MaxStalls
    /\ \E d \in StallSteps : now' = now + d
    /\ stalls' = stalls + 1
    /\ UNCHANGED <<queue, pc, cur, tnow, log, nextId, ret>>
    /\ UNCHANGED <<fnVars, osioVars, chaosVars, kubeVars, oracleVars, factoryVars>>

\* A run() that does not sleep before it executes.
NotSlept(t, delta) == t

\* if delta > 0: time.sleep(delta) -- the clock when run() goes on, having
\* read it as t (a later return from the sleep is a Stall after it).
Slept(t, delta) == IF delta > 0 THEN t + delta ELSE t

\* event = get_nowait(); now = time.time(); delta = event.when - now;
\* if delta > 0: time.sleep(delta)
\* queue.Empty from get_nowait() ends run().
Pop ==
    /\ pc = "pop"
    /\ IF queue = <<>>
       THEN /\ pc' = "returned"
            /\ UNCHANGED <<now, queue, cur, tnow>>
       ELSE /\ cur' = Heappop(queue)[1]
            /\ queue' = Heappop(queue)[2]
            /\ tnow' = now
            /\ now' = Slept(now, cur'.when - now)
            /\ pc' = "exec"
    /\ UNCHANGED <<log, nextId, stalls, ret>>
    /\ UNCHANGED <<fnVars, osioVars, chaosVars, kubeVars, oracleVars, factoryVars>>

\* The effect on run() of event.execute() ending with `out`:
\*   "ok"    : self.add(*events), next iteration
\*   "Empty" : execute() raised queue.Empty, which run() catches and returns
\*   "Error" : execute() raised anything else, which leaves run()
Executed(out, events) ==
    /\ ret' = events
    /\ queue' = IF out = "ok" THEN Add(queue, events) ELSE queue
    /\ pc' = CASE out = "ok" -> "pop"
               [] out = "Empty" -> "returned"
               [] OTHER -> "raised"
    /\ cur' = IF out = "ok" THEN NoEvent ELSE cur
    /\ UNCHANGED tnow

\* History of the OneShot and Periodic runs: the call of execute() that ends
\* with `out`, the action function having returned `res` and `n` Events
\* having been constructed.
Logged(out, res, n) ==
    /\ log' = Append(log, [id |-> cur.id, when |-> cur.when, fn |-> cur.fn, at |-> now,
                           out |-> out, res |-> res])
    /\ nextId' = nextId + n

\* A OneShot that returns itself to be scheduled again.
ExecOneShotRequeued ==
    /\ pc = "exec"
    /\ cur.kind = "OneShot"
    /\ calls' = [calls EXCEPT ![cur.fn] = @ + 1]
    /\ \E out \in {"ok", "Empty", "Error"} :
          /\ Executed(out, IF calls[cur.fn] = 0
                          THEN <<OneShot(nextId, cur.when, cur.fn)>> ELSE <<>>)
          /\ Logged(out, "none", IF calls[cur.fn] = 0 THEN 1 ELSE 0)
    /\ UNCHANGED <<now, stalls, trues, seeded>>
    /\ UNCHANGED <<osioVars, chaosVars, kubeVars, oracleVars, factoryVars>>

\* OneShot.execute(): self._action[0](); return []
ExecOneShot ==
    /\ pc = "exec"
    /\ cur.kind = "OneShot"
    /\ calls' = [calls EXCEPT ![cur.fn] = @ + 1]
    /\ \E out \in {"ok", "Empty", "Error"} : Executed(out, <<>>) /\ Logged(out, "none", 0)
    /\ UNCHANGED <<now, stalls, trues, seeded>>
    /\ UNCHANGED <<osioVars, chaosVars, kubeVars, oracleVars, factoryVars>>

\* A Periodic whose test of the action's result is inverted.
ExecPeriodicInverted ==
    /\ pc = "exec"
    /\ cur.kind = "Periodic"
    /\ calls' = [calls EXCEPT ![cur.fn] = @ + 1]
    /\ \/ /\ trues[cur.fn] < MaxTrue
          /\ trues' = [trues EXCEPT ![cur.fn] = @ + 1]
          /\ Executed("ok", <<>>) /\ Logged("ok", "true", 0)
       \/ /\ UNCHANGED trues
          /\ \/ /\ calls[cur.fn] <= MaxTrue
                /\ Executed("ok", <<Periodic(nextId, now, cur.interval, cur.fn)>>)
                /\ Logged("ok", "false", 1)
             \/ \E out \in {"Empty", "Error"} : Executed(out, <<>>) /\ Logged(out, "none", 0)
    /\ UNCHANGED <<now, stalls, seeded>>
    /\ UNCHANGED <<osioVars, chaosVars, kubeVars, oracleVars, factoryVars>>

\* Periodic.execute(): if self._action[0](): return [Periodic(interval, action)]
ExecPeriodic ==
    /\ pc = "exec"
    /\ cur.kind = "Periodic"
    /\ calls' = [calls EXCEPT ![cur.fn] = @ + 1]
    /\ \/ /\ trues[cur.fn] < MaxTrue
          /\ trues' = [trues EXCEPT ![cur.fn] = @ + 1]
          /\ Executed("ok", <<Periodic(nextId, now, cur.interval, cur.fn)>>)
          /\ Logged("ok", "true", 1)
       \/ /\ UNCHANGED trues
          /\ \/ Executed("ok", <<>>) /\ Logged("ok", "false", 0)
             \/ \E out \in {"Empty", "Error"} : Executed(out, <<>>) /\ Logged(out, "none", 0)
    /\ UNCHANGED <<now, stalls, seeded>>
    /\ UNCHANGED <<osioVars, chaosVars, kubeVars, oracleVars, factoryVars>>

(***************************************************************************)
(* A run of the Dispatcher over OneShot and Periodic events.               *)
(***************************************************************************)
SeedChoices == ({"OneShot"} \X Whens) \cup ({"Periodic"} \X Intervals)

Seeds ==
    {s \in UNION {[1..n -> SeedChoices] : n \in 1..MaxInit} :
        Cardinality({i \in DOMAIN s : s[i][1] = "Periodic"}) <= MaxPeriodic}

Seed(i, s) ==
    IF s[1] = "OneShot" THEN OneShot(i, s[2], i) ELSE Periodic(i, 0, s[2], i)

\* main()'s fail_instance before get_failure() has returned one: None.
NoFailure == [id |-> 0, deployment |-> "", pod |-> 0]

\* create_namespace() before it has been called.
NoReturn == [name |-> "", existing_ok |-> FALSE, existed |-> FALSE, out |-> "none",
             status |-> 0, manifest |-> ""]

\* No call of the helpers of kube.py is followed on its own.
\* No call of CephCluster.is_healthy(timeout_seconds) is followed step by step.
NoOracle ==
    /\ hpc = "off"
    /\ frames = <<>>
    /\ hret = "none"
    /\ observed = <<>>
    /\ sleeps = 0

NoKube ==
    /\ kpc = "off"
    /\ codes = <<>>
    /\ given = FALSE
    /\ responses = <<>>
    /\ slept = 0
    /\ result = "none"
    /\ namespaces = {}
    /\ nsret = NoReturn

\* No chaos runner is part of a run of the Dispatcher or the workload generator.
NoChaos ==
    /\ cpc = "off"
    /\ failure_types = <<>>
    /\ idx = 0
    /\ gets = <<>>
    /\ got = "none"
    /\ fail_instance = NoFailure
    /\ pending_repairs = <<>>
    /\ time_remaining = 0
    /\ trace = <<>>
    /\ health = "none"
    /\ pods = <<>>
    /\ ready_replicas = <<>>
    /\ podseq = 0

InitDisp ==
    /\ now = 0
    /\ \E s \in Seeds :
        /\ seeded = [i \in 1..Len(s) |-> Seed(i, s[i])]
        /\ queue = Add(<<>>, seeded)
        /\ nextId = Len(s) + 1
        /\ calls = [i \in 1..Len(s) |-> 0]
        /\ trues = [i \in 1..Len(s) |-> 0]
    /\ pc = "pop"
    /\ cur = NoEvent
    /\ tnow = 0
    /\ log = <<>>
    /\ stalls = 0
    /\ ret = <<>>
    /\ deploys = <<>>
    /\ pvcs = {}
    /\ ops = <<>>
    /\ tick = NoTick
    /\ created = 0
    /\ restarts = 0
    /\ flips = <<>>
    /\ made = {}
    /\ active_since = <<>>
    /\ NoChaos
    /\ NoKube
    /\ NoOracle
    /\ manifests = <<>>

NextDisp == Stall \/ Pop \/ ExecOneShot \/ ExecPeriodic

SpecDisp == InitDisp /\ [][NextDisp]_vars

\* run() is one thread that keeps running.
FairSpecDisp == SpecDisp /\ WF_vars(Pop \/ ExecOneShot \/ ExecPeriodic)

(***************************************************************************)
(* The OSIO workload: Creator and Lifecycle events (src/osio.py).          *)
(*                                                                         *)
(* A Deployment is [replicas, labels, anno]; anno is the annotation dict, a *)
(* function whose domain is the keys present ("ocs-monkey/osio-" dropped). *)
(* A Deployment osio-worker-{uid} and its claim pvc-{uid} are named by uid.*)
(***************************************************************************)
\* Lifecycle._health_interval
HealthInterval == 10
\* Lifecycle._health_interval_initial
HealthIntervalInitial == 90
\* The Creator's mean active and idle times, as the runner passes them.
ActiveMean == 60
IdleMean == 30

WORKAROUND_MIN_RUNTIME == TRUE

\* Values of random.randrange(999999999) in _get_workload.
Uids == {1, 2}
\* Values of random.expovariate(1/mean) for an active or idle duration.
Draws == {4, 120}
\* Values of random.expovariate(1/lifetime).
LifeDraws == {0, 90, 200}
\* Values of random.expovariate(1/interarrival).
InterDraws == {0, 500}
\* Seconds that pass between the two reads of time.time() that set
\* osio-idle-at and osio-health-at; a nonzero one is a processing delay.  (The
\* other reads of an execute() are taken at the clock it begins with.)
Drift == {0, 1}

DriftCost(d) == IF d = 0 THEN 0 ELSE 1

\* Lifecycle(when, namespace, name)
Lifecycle(when, name) ==
    [id |-> 0, when |-> when, kind |-> "Lifecycle", fn |-> 0, interval |-> 0, name |-> name]

\* Creator(...): when = time.time() + random.expovariate(1/interarrival)
Creator(t, draw) ==
    [id |-> 0, when |-> t + draw, kind |-> "Creator", fn |-> 0, interval |-> 0, name |-> 0]

\* anno[key] = value
SetAnno(deploy, key, value) ==
    [deploy EXCEPT !.anno = [k \in DOMAIN @ \cup {key} |-> IF k = key THEN value ELSE @[k]]]

Min3(a, b, c) ==
    IF a <= b /\ a <= c THEN a ELSE IF b <= c THEN b ELSE c

\* A duration that is not clamped.
Unclamped(d) == d

\* if WORKAROUND_MIN_RUNTIME: duration = max(duration, self._health_interval_initial)
Clamp(d) == IF WORKAROUND_MIN_RUNTIME THEN Max(d, HealthIntervalInitial) ELSE d

\* An initialize that takes the health interval of a running pod.
ActionInitializeRunning(deploy, t1, t2, d) ==
    SetAnno(SetAnno(deploy, "idle_at", t1 + Clamp(d)),
            "health_at", t2 + HealthInterval)

\* Lifecycle._action_initialize, with the two clock reads t1 <= t2 and the
\* drawn idle duration d.
ActionInitialize(deploy, t1, t2, d) ==
    SetAnno(SetAnno(deploy, "idle_at", t1 + Clamp(d)),
            "health_at", t2 + HealthIntervalInitial)

\* A health action that takes no account of spec.replicas.
UnhealthyIdle(deploy, ready) == ready # 1

\* Lifecycle._action_health raises UnhealthyDeployment.
Unhealthy(deploy, ready) == deploy.replicas = 1 /\ ready # 1

\* A health action that leaves osio-health-at as it was.
ActionHealthStale(deploy, t1) == deploy

\* Lifecycle._action_health, when it does not raise.
ActionHealth(deploy, t1) == SetAnno(deploy, "health_at", t1 + HealthInterval)

\* An idle action that leaves spec.replicas alone.
ActionIdleNoFlip(deploy, t1, t2, d) ==
    SetAnno(SetAnno(deploy, "idle_at", t1 + Clamp(d)),
            "health_at", t2 + HealthIntervalInitial)

\* An idle action that takes the health interval of a running pod for the pod
\* it starts.
ActionIdleRunning(deploy, t1, t2, d) ==
    IF deploy.replicas = 0
    THEN SetAnno(SetAnno([deploy EXCEPT !.replicas = 1], "idle_at", t1 + Clamp(d)),
                 "health_at", t2 + HealthInterval)
    ELSE SetAnno(SetAnno([deploy EXCEPT !.replicas = 0], "idle_at", t1 + Clamp(d)),
                 "health_at", t2 + HealthInterval)

\* Lifecycle._action_idle, with the two clock reads and the drawn duration
\* (active when replicas == 0, idle otherwise).
ActionIdle(deploy, t1, t2, d) ==
    IF deploy.replicas = 0
    THEN SetAnno(SetAnno([deploy EXCEPT !.replicas = 1], "idle_at", t1 + Clamp(d)),
                 "health_at", t2 + HealthIntervalInitial)
    ELSE SetAnno(SetAnno([deploy EXCEPT !.replicas = 0], "idle_at", t1 + Clamp(d)),
                 "health_at", t2 + HealthInterval)

\* A next action chosen without regard to which time is the minimum.
NextActionHealthFirst(destroy_time, idle_time, health_time) ==
    IF health_time <= idle_time THEN "health"
    ELSE IF Min3(destroy_time, idle_time, health_time) = idle_time THEN "idle"
    ELSE "destroy"

\* A next action that prefers the flip to the destroy when their times tie.
NextActionIdleFirst(destroy_time, idle_time, health_time) ==
    IF Min3(destroy_time, idle_time, health_time) = idle_time THEN "idle"
    ELSE IF Min3(destroy_time, idle_time, health_time) = destroy_time THEN "destroy"
    ELSE "health"

\* Lifecycle._update_and_schedule, the if/elif/else on next_time
NextAction(destroy_time, idle_time, health_time) ==
    IF Min3(destroy_time, idle_time, health_time) = destroy_time THEN "destroy"
    ELSE IF Min3(destroy_time, idle_time, health_time) = idle_time THEN "idle"
    ELSE "health"

\* An _update_and_schedule that writes osio-active as well.
UpdateAndScheduleReset(deploy) ==
    LET destroy_time == deploy.anno["destroy_at"]
        idle_time == deploy.anno["idle_at"]
        health_time == deploy.anno["health_at"]
        next_time == Min3(destroy_time, idle_time, health_time)
    IN  SetAnno(SetAnno(SetAnno(deploy, "next_time", next_time),
                "next_action", NextAction(destroy_time, idle_time, health_time)),
                "active", 0)

\* Lifecycle._update_and_schedule: the manifest that is patched
UpdateAndSchedule(deploy) ==
    LET destroy_time == deploy.anno["destroy_at"]
        idle_time == deploy.anno["idle_at"]
        health_time == deploy.anno["health_at"]
        next_time == Min3(destroy_time, idle_time, health_time)
    IN  SetAnno(SetAnno(deploy, "next_time", next_time),
                "next_action", NextAction(destroy_time, idle_time, health_time))

\* A delete that leaves the object in place.
Kept(f, name) == f

\* The Deployments without `name`.
Without(f, name) == [n \in DOMAIN f \ {name} |-> f[n]]

\* Lifecycle.execute() patches: the cluster takes the manifest, the follow-on
\* is one Lifecycle at next_time.
Patched(name, deploy, fail) ==
    IF fail
    THEN /\ Executed("Error", <<>>)
         /\ ops' = <<>>
         /\ UNCHANGED <<deploys, pvcs>>
    ELSE /\ Executed("ok",
                     <<Lifecycle(UpdateAndSchedule(deploy).anno["next_time"], name)>>)
         /\ deploys' = [deploys EXCEPT ![name] = UpdateAndSchedule(deploy)]
         /\ ops' = <<[op |-> "patch", name |-> name]>>
         /\ UNCHANGED pvcs

\* The clock of the tick that made each Deployment active, with `name` at t.
Since(f, name, t) == [n \in DOMAIN f \cup {name} |-> IF n = name THEN t ELSE f[n]]

\* Lifecycle.execute(), first tick: no osio-next-action annotation.
LifecycleInitialize ==
    /\ pc = "exec"
    /\ cur.kind = "Lifecycle"
    /\ cur.name \in DOMAIN deploys
    /\ "next_action" \notin DOMAIN deploys[cur.name].anno
    /\ \E d \in Draws, d2 \in Drift, fail \in BOOLEAN :
         /\ stalls + DriftCost(d2) <= MaxStalls
         /\ stalls' = stalls + DriftCost(d2)
         /\ now' = now + d2
         /\ tick' = [name |-> cur.name, branch |-> "init", t0 |-> now, t1 |-> now,
                     t2 |-> now + d2, d |-> d, was |-> deploys[cur.name].replicas,
                     ready |-> 0, exc |-> IF fail THEN "ApiException" ELSE "none"]
         /\ Patched(cur.name, ActionInitialize(deploys[cur.name], now, now + d2, d), fail)
         /\ active_since' = IF fail THEN active_since
                            ELSE Since(active_since, cur.name, now)
    /\ UNCHANGED <<log, nextId, fnVars, chaosVars, kubeVars, oracleVars, factoryVars, created, restarts, flips, made>>

\* An early tick that asks to be run again at once.
LifecycleEarlyAtOnce ==
    /\ pc = "exec"
    /\ cur.kind = "Lifecycle"
    /\ cur.name \in DOMAIN deploys
    /\ "next_action" \in DOMAIN deploys[cur.name].anno
    /\ deploys[cur.name].anno["next_time"] > now
    /\ tick' = [name |-> cur.name, branch |-> "early", t0 |-> now, t1 |-> now,
                t2 |-> now, d |-> 0, was |-> deploys[cur.name].replicas,
                ready |-> 0, exc |-> "none"]
    /\ Executed("ok", <<Lifecycle(0, cur.name)>>)
    /\ ops' = <<>>
    /\ UNCHANGED <<now, deploys, pvcs>>
    /\ UNCHANGED <<log, nextId, stalls, fnVars, chaosVars, kubeVars, oracleVars, factoryVars, created, restarts, active_since, flips, made>>

\* Lifecycle.execute(): etime > time.time(), "we ran too early... reschedule".
LifecycleEarly ==
    /\ pc = "exec"
    /\ cur.kind = "Lifecycle"
    /\ cur.name \in DOMAIN deploys
    /\ "next_action" \in DOMAIN deploys[cur.name].anno
    /\ deploys[cur.name].anno["next_time"] > now
    /\ tick' = [name |-> cur.name, branch |-> "early", t0 |-> now, t1 |-> now,
                t2 |-> now, d |-> 0, was |-> deploys[cur.name].replicas,
                ready |-> 0, exc |-> "none"]
    /\ Executed("ok", <<Lifecycle(deploys[cur.name].anno["next_time"], cur.name)>>)
    /\ ops' = <<>>
    /\ UNCHANGED <<now, deploys, pvcs>>
    /\ UNCHANGED <<log, nextId, stalls, fnVars, chaosVars, kubeVars, oracleVars, factoryVars, created, restarts, active_since, flips, made>>

\* A tick that acts on its osio-next-action whatever the clock is.
DueAnyTime(action) ==
    /\ pc = "exec"
    /\ cur.kind = "Lifecycle"
    /\ cur.name \in DOMAIN deploys
    /\ "next_action" \in DOMAIN deploys[cur.name].anno
    /\ deploys[cur.name].anno["next_action"] = action

\* The Lifecycle tick is due: next_action is present and next_time <= now.
Due(action) ==
    /\ pc = "exec"
    /\ cur.kind = "Lifecycle"
    /\ cur.name \in DOMAIN deploys
    /\ "next_action" \in DOMAIN deploys[cur.name].anno
    /\ deploys[cur.name].anno["next_time"] <= now
    /\ deploys[cur.name].anno["next_action"] = action

\* Lifecycle.execute(), eaction == "destroy": _action_destroy deletes the
\* Deployment, then the claim named by osio-pvc; no follow-on.
LifecycleDestroy ==
    /\ Due("destroy")
    /\ \E fail \in {"none", "deployment", "pvc"} :
         /\ tick' = [name |-> cur.name, branch |-> "destroy", t0 |-> now, t1 |-> now,
                     t2 |-> now, d |-> 0, was |-> deploys[cur.name].replicas,
                     ready |-> 0,
                     exc |-> IF fail = "none" THEN "none" ELSE "ApiException"]
         /\ Executed(IF fail = "none" THEN "ok" ELSE "Error", <<>>)
         /\ deploys' = IF fail = "deployment" THEN deploys ELSE Without(deploys, cur.name)
         /\ pvcs' = IF fail = "none" THEN pvcs \ {deploys[cur.name].anno["pvc"]} ELSE pvcs
         /\ ops' = CASE fail = "deployment" -> <<>>
                     [] fail = "pvc" -> <<[op |-> "delete_deployment", name |-> cur.name]>>
                     [] OTHER -> <<[op |-> "delete_deployment", name |-> cur.name],
                                   [op |-> "delete_pvc", name |-> deploys[cur.name].anno["pvc"]]>>
         /\ flips' = IF fail = "deployment" THEN flips ELSE Without(flips, cur.name)
         /\ made' = IF fail = "none" THEN made \ {cur.name} ELSE made
         /\ active_since' = IF fail = "deployment" THEN active_since
                            ELSE Without(active_since, cur.name)
    /\ UNCHANGED <<now, log, nextId, stalls, fnVars, chaosVars, kubeVars, oracleVars, factoryVars, created, restarts>>

\* Lifecycle.execute(), eaction == "health": raise UnhealthyDeployment, or
\* set osio-health-at and patch.
LifecycleHealth ==
    /\ Due("health")
    /\ \E ready \in {0, 1}, fail \in BOOLEAN :
         /\ tick' = [name |-> cur.name, branch |-> "health", t0 |-> now, t1 |-> now,
                     t2 |-> now, d |-> 0, was |-> deploys[cur.name].replicas,
                     ready |-> ready,
                     exc |-> IF Unhealthy(deploys[cur.name], ready)
                             THEN "UnhealthyDeployment"
                             ELSE IF fail THEN "ApiException" ELSE "none"]
         /\ IF Unhealthy(deploys[cur.name], ready)
            THEN /\ Executed("Error", <<>>)
                 /\ ops' = <<>>
                 /\ UNCHANGED <<deploys, pvcs>>
            ELSE Patched(cur.name, ActionHealth(deploys[cur.name], now), fail)
    /\ UNCHANGED <<now, log, nextId, stalls, fnVars, chaosVars, kubeVars, oracleVars, factoryVars, created, restarts, active_since, flips, made>>

\* The clock of the last two flips of each Deployment, with one at t added.
Flipped(f, name, t) ==
    [n \in DOMAIN f \cup {name} |->
       IF n # name THEN f[n]
       ELSE IF name \in DOMAIN f THEN <<f[name][Len(f[name])], t>> ELSE <<t>>]

\* Lifecycle.execute(), eaction == "idle": flip spec.replicas and patch.
LifecycleIdle ==
    /\ Due("idle")
    /\ \E d \in Draws, d2 \in Drift, fail \in BOOLEAN :
         /\ stalls + DriftCost(d2) <= MaxStalls
         /\ stalls' = stalls + DriftCost(d2)
         /\ now' = now + d2
         /\ tick' = [name |-> cur.name, branch |-> "idle", t0 |-> now, t1 |-> now,
                     t2 |-> now + d2, d |-> d, was |-> deploys[cur.name].replicas,
                     ready |-> 0, exc |-> IF fail THEN "ApiException" ELSE "none"]
         /\ Patched(cur.name, ActionIdle(deploys[cur.name], now, now + d2, d), fail)
         /\ flips' = IF fail THEN flips ELSE Flipped(flips, cur.name, now)
         /\ active_since' = IF fail \/ deploys[cur.name].replicas # 0 THEN active_since
                            ELSE Since(active_since, cur.name, now)
    /\ UNCHANGED <<log, nextId, fnVars, chaosVars, kubeVars, oracleVars, factoryVars, created, restarts, made>>

\* Lifecycle.execute() fails before any action: _get_deployment finds no
\* Deployment (IndexError), or the next action is unknown (assert False).
\* No run that start() seeds reaches it.
LifecycleBroken ==
    /\ pc = "exec"
    /\ cur.kind = "Lifecycle"
    /\ \/ cur.name \notin DOMAIN deploys
       \/ /\ cur.name \in DOMAIN deploys
          /\ "next_action" \in DOMAIN deploys[cur.name].anno
          /\ deploys[cur.name].anno["next_time"] <= now
          /\ deploys[cur.name].anno["next_action"] \notin {"destroy", "health", "idle"}
    /\ Executed("Error", <<>>)
    /\ ops' = <<>>
    /\ tick' = [NoTick EXCEPT !.name = cur.name, !.branch = "broken", !.t0 = now,
                             !.exc = "Error"]
    /\ UNCHANGED <<chaosVars, kubeVars, oracleVars, factoryVars>>
    /\ UNCHANGED <<now, log, nextId, stalls, deploys, pvcs, fnVars, created, restarts, active_since, flips,
                   made>>

\* A workload that is not stamped with the name of its claim.
WorkloadNoPvc(uid, destroy_time) ==
    [replicas |-> 1,
     labels |-> [k \in {"ocs-monkey/controller"} |-> "osio"],
     anno |-> [k \in {"active", "idle", "destroy_at"} |->
                 CASE k = "active" -> ActiveMean
                   [] k = "idle" -> IdleMean
                   [] OTHER -> destroy_time]]

\* _get_workload plus the annotations Creator.execute stamps
Workload(uid, destroy_time) ==
    [replicas |-> 1,
     labels |-> [k \in {"ocs-monkey/controller"} |-> "osio"],
     anno |-> [k \in {"active", "idle", "destroy_at", "pvc"} |->
                 CASE k = "active" -> ActiveMean
                   [] k = "idle" -> IdleMean
                   [] k = "destroy_at" -> destroy_time
                   [] OTHER -> uid]]

\* Creator.execute(): create the claim, then the Deployment (each create
\* answers 409 when the name exists and may fail otherwise); follow-ons are a
\* Lifecycle at when=0 and a fresh Creator.
ExecCreator ==
    /\ pc = "exec"
    /\ cur.kind = "Creator"
    /\ created < MaxCreates
    /\ created' = created + 1
    /\ \E life \in LifeDraws, uid \in Uids, ia \in InterDraws,
          fail \in {"none", "pvc", "deployment"} :
         /\ IF uid \in pvcs \/ fail = "pvc"
            THEN /\ Executed("Error", <<>>)
                 /\ ops' = <<>>
                 /\ UNCHANGED <<deploys, pvcs, made>>
            ELSE IF uid \in DOMAIN deploys \/ fail = "deployment"
            THEN /\ Executed("Error", <<>>)
                 /\ ops' = <<[op |-> "create_pvc", name |-> uid]>>
                 /\ pvcs' = pvcs \cup {uid}
                 /\ UNCHANGED <<deploys, made>>
            ELSE /\ Executed("ok",
                             <<Lifecycle(0, uid), Creator(now, ia)>>)
                 /\ ops' = <<[op |-> "create_pvc", name |-> uid],
                             [op |-> "create_deployment", name |-> uid]>>
                 /\ pvcs' = pvcs \cup {uid}
                 /\ deploys' = [n \in DOMAIN deploys \cup {uid} |->
                                  IF n = uid THEN Workload(uid, now + life) ELSE deploys[n]]
                 /\ made' = made \cup {uid}
    /\ UNCHANGED <<now, log, nextId, stalls, fnVars, chaosVars, kubeVars, oracleVars, factoryVars, tick, restarts, active_since, flips>>

\* The names of the Deployments in `names`, in the order the API lists them.
RECURSIVE Listed(_)
Listed(names) ==
    IF names = {} THEN <<>>
    ELSE LET n == CHOOSE x \in names : \A y \in names : x <= y
         IN  <<n>> \o Listed(names \ {n})

\* The Deployments of others that the namespace holds from the start: one
\* without labels, one whose ocs-monkey/controller label has another value.
Foreign ==
    [n \in {8, 9} |->
       [replicas |-> 1,
        labels |-> IF n = 8 THEN <<>> ELSE [k \in {"ocs-monkey/controller"} |-> "other"],
        anno |-> <<>>]]

\* A list of the namespace that takes no account of labels.
Everything == DOMAIN deploys

\* list_namespaced_deployment(label_selector='ocs-monkey/controller=osio')
Selected ==
    {n \in DOMAIN deploys :
       /\ "ocs-monkey/controller" \in DOMAIN deploys[n].labels
       /\ deploys[n].labels["ocs-monkey/controller"] = "osio"}

\* A resume() that adopts nothing.
ResumeNone == <<>>

\* resume(namespace): one Lifecycle at when=0 for each Deployment listed.
Resume ==
    [i \in 1..Cardinality(Selected) |-> Lifecycle(0, Listed(Selected)[i])]

\* Seconds the workload generator may be down before it is started again.
Downtime == {0, 100}

\* The workload generator stops where it is (between two execute(), or after
\* run() ended) and is started again: main() seeds a new Dispatcher with
\* resume() and start().  The cluster keeps its state.
Restart ==
    /\ pc \in {"pop", "returned", "raised"}
    /\ restarts < MaxRestarts
    /\ restarts' = restarts + 1
    /\ \E down \in Downtime, ia \in InterDraws :
         /\ now' = now + down
         /\ queue' = Add(Add(<<>>, Resume), <<Creator(now + down, ia)>>)
    /\ pc' = "pop"
    /\ cur' = NoEvent
    /\ tnow' = 0
    /\ ret' = <<>>
    /\ ops' = <<>>
    /\ tick' = NoTick
    /\ UNCHANGED <<log, nextId, stalls, fnVars, chaosVars, kubeVars, oracleVars, factoryVars, deploys, pvcs, created, flips, made,
                   active_since>>

(***************************************************************************)
(* A run of the workload generator: the Dispatcher seeded by start().      *)
(***************************************************************************)
InitOsio ==
    /\ now = 0
    /\ \E ia \in InterDraws : queue = Add(<<>>, <<Creator(0, ia)>>)
    /\ nextId = 1
    /\ pc = "pop"
    /\ cur = NoEvent
    /\ tnow = 0
    /\ log = <<>>
    /\ stalls = 0
    /\ ret = <<>>
    /\ calls = <<>>
    /\ trues = <<>>
    /\ seeded = <<>>
    /\ deploys = Foreign
    /\ pvcs = {}
    /\ ops = <<>>
    /\ tick = NoTick
    /\ created = 0
    /\ restarts = 0
    /\ flips = <<>>
    /\ made = {}
    /\ active_since = <<>>
    /\ NoChaos
    /\ NoKube
    /\ NoOracle
    /\ manifests = <<>>

NextOsio ==
    \/ Pop
    \/ ExecCreator
    \/ LifecycleInitialize
    \/ LifecycleEarly
    \/ LifecycleDestroy
    \/ LifecycleHealth
    \/ LifecycleIdle
    \/ Restart

SpecOsio == InitOsio /\ [][NextOsio]_vars

\* run() goes on: a pop, and the execute() of the Event popped, is taken in the
\* end.  A restart is owed by nobody.
FairSpecOsio ==
    SpecOsio /\ WF_vars(Pop \/ ExecCreator \/ LifecycleInitialize \/ LifecycleEarly
                           \/ LifecycleDestroy \/ LifecycleHealth \/ LifecycleIdle)

(***************************************************************************)
(* The workload generator beside another writer of the annotations: the    *)
(* Deployments are objects of the cluster, which anybody with the rights   *)
(* (kubectl annotate, a later version of the generator) can patch.         *)
(***************************************************************************)
\* A due tick reads an osio-next-action that is none of the three.
Unknown ==
    /\ pc = "exec"
    /\ cur.kind = "Lifecycle"
    /\ cur.name \in DOMAIN deploys
    /\ "next_action" \in DOMAIN deploys[cur.name].anno
    /\ deploys[cur.name].anno["next_time"] <= now
    /\ deploys[cur.name].anno["next_action"] \notin {"destroy", "health", "idle"}

\* Lifecycle.execute() with the assert compiled away: it goes on to
\* _update_and_schedule().
LifecycleUnknownPatched ==
    /\ Unknown
    /\ tick' = [NoTick EXCEPT !.name = cur.name, !.branch = "unknown", !.t0 = now,
                             !.t1 = now, !.t2 = now,
                             !.was = deploys[cur.name].replicas]
    /\ Patched(cur.name, deploys[cur.name], FALSE)
    /\ UNCHANGED <<now, log, nextId, stalls, fnVars, chaosVars, kubeVars, oracleVars, factoryVars, created, restarts, active_since, flips, made>>

\* Lifecycle.execute(), eaction none of "destroy", "health", "idle":
\* assert False, f'Unknown next action: {eaction}'.
LifecycleUnknown ==
    /\ Unknown
    /\ tick' = [NoTick EXCEPT !.name = cur.name, !.branch = "unknown", !.t0 = now,
                             !.t1 = now, !.t2 = now,
                             !.was = deploys[cur.name].replicas,
                             !.exc = "AssertionError"]
    /\ Executed("Error", <<>>)
    /\ ops' = <<>>
    /\ UNCHANGED <<deploys, pvcs>>
    /\ UNCHANGED <<now, log, nextId, stalls, fnVars, chaosVars, kubeVars, oracleVars, factoryVars, created, restarts, active_since, flips, made>>

\* Another writer sets osio-next-action of a Deployment of the generator to a
\* value the generator never writes.
Annotate ==
    /\ pc \in {"pop", "exec"}
    /\ \E name \in DOMAIN deploys :
        /\ "next_action" \in DOMAIN deploys[name].anno
        /\ deploys[name].anno["next_action"] # "other"
        /\ deploys' = [deploys EXCEPT ![name] = SetAnno(deploys[name], "next_action", "other")]
    /\ UNCHANGED <<pvcs, ops, tick, created, restarts, active_since, flips, made>>
    /\ UNCHANGED <<dispVars, fnVars, chaosVars, kubeVars, oracleVars, factoryVars>>

NextOsioEdited == NextOsio \/ LifecycleUnknown \/ Annotate

SpecOsioEdited == InitOsio /\ [][NextOsioEdited]_vars

(***************************************************************************)
(* The chaos runner (src/chaos_runner.py) and its failures                 *)
(* (src/failure.py, src/failure_ocs.py) against the storage system.        *)
(***************************************************************************)
\* Largest number of failures main() lets compound before it repairs.
MaxPending == 2
\* Largest number of Pods the storage system makes in one run.
MaxPods == 4
\* --mitigation-timeout, in seconds.
MitigationTimeout == 20
\* await_mitigation()'s sleep_time.
SleepTime == 10

\* dict.get() of a key that is absent.
None == -1

\* The label value each DeletePodType of main() selects Deployments by.
FailureTypes == {"rook-ceph-mon", "rook-ceph-operator"}

\* The Deployments of the storage system: their label and spec.replicas.
Components ==
    [d \in {"mon-a", "mon-b"} |->
        [app |-> "rook-ceph-mon", replicas |-> IF d = "mon-b" THEN 2 ELSE 1]]

\* What the CephCluster object can show: no status ("none"), a status with no
\* ceph, a status.ceph with no health, or the health of status.ceph.
HealthValues == {"none", "no-ceph", "no-health", "HEALTH_OK", "HEALTH_WARN"}

\* CephCluster._is_healthy() of the object read: ceph["status"]["ceph"]["health"]
\* is a KeyError when status.ceph has no health.
ReadHealthy(crd) ==
    IF crd = "none" THEN "False"
    ELSE IF crd = "no-ceph" THEN "False"
    ELSE IF crd = "no-health" THEN "KeyError"
    ELSE IF crd = "HEALTH_OK" THEN "True"
    ELSE "False"

\* status.ready_replicas of a Deployment with n ready Pods: absent when zero.
ReadyReplicas(n) == IF n = 0 THEN None ELSE n

\* random.shuffle(): every order of the list.
Shuffle(s) ==
    {p \in [1..Len(s) -> SeqToSet(s)] : \A e \in SeqToSet(s) : \E i \in 1..Len(s) : p[i] = e}

Reverse(s) == [i \in 1..Len(s) |-> s[Len(s) + 1 - i]]

\* CephCluster.is_healthy() with no timeout.
IsHealthy == ReadHealthy(health) = "True"

\* list_namespaced_deployment with the label selector of the type.
Matched(type) == {d \in DOMAIN Components : Components[d].app = type}

\* A Deployment that spec.replicas != status.get("ready_replicas") stops get() on.
NeverDegraded(d) == FALSE

Degraded(d) == Components[d].replicas # ready_replicas[d]

\* DeletePod(deployment, pod), the n-th failure of the stack.
DeletePod(n, d, p) == [id |-> n, deployment |-> d, pod |-> p]

Raised(type, exc, call) == [type |-> type, out |-> exc, at |-> call, f |-> NoFailure]

\* DeletePodType.get(): every way it can end.  `at` is the API call it ended
\* after; an API call can raise ApiException.
Get(type, n) ==
    {Raised(type, "ApiException", "health")} \cup
    IF ReadHealthy(health) = "KeyError" THEN {Raised(type, "KeyError", "health")}
    ELSE IF ~IsHealthy THEN {Raised(type, "NoSafeFailures", "health")}
    ELSE {Raised(type, "ApiException", "deployments")} \cup
         IF Matched(type) = {} THEN {Raised(type, "NoSafeFailures", "deployments")}
         ELSE IF \E d \in Matched(type) : Degraded(d)
              THEN {Raised(type, "NoSafeFailures", "deployments")}
              ELSE UNION {
                  {Raised(type, "ApiException", "pods")} \cup
                  IF pods[d] = {} THEN {Raised(type, "NoSafeFailures", "pods")}
                  ELSE {[type |-> type, out |-> "ok", at |-> "pods", f |-> DeletePod(n, d, p)] :
                           p \in pods[d]} : d \in Matched(type)}

\* get_failure(): random.shuffle(types).
GetFailure ==
    /\ cpc = "loop"
    /\ failure_types' \in Shuffle(failure_types)
    /\ idx' = 1
    /\ gets' = <<>>
    /\ got' = "none"
    /\ cpc' = "get"
    /\ UNCHANGED <<fail_instance, pending_repairs, time_remaining, trace>>
    /\ UNCHANGED <<health, pods, ready_replicas, podseq>>
    /\ UNCHANGED <<dispVars, fnVars, osioVars, kubeVars, oracleVars, factoryVars>>

\* The exceptions of get() that get_failure() passes over.
CaughtAny(exc) == exc # "ok"

Caught(exc) == exc = "NoSafeFailures"

\* get_failure(): one turn of its for loop.
TypeGet ==
    /\ cpc = "get"
    /\ idx <= Len(failure_types)
    /\ \E r \in Get(failure_types[idx], Len(pending_repairs) + 1) :
        /\ gets' = Append(gets, r)
        /\ IF r.out = "ok"
           THEN /\ fail_instance' = r.f
                /\ got' = "returned"
                /\ cpc' = "invoke"
                /\ UNCHANGED idx
           ELSE IF Caught(r.out)
           THEN /\ idx' = idx + 1
                /\ UNCHANGED <<fail_instance, got, cpc>>
           ELSE /\ got' = r.out
                /\ cpc' = "raised"
                /\ UNCHANGED <<fail_instance, idx>>
    /\ UNCHANGED <<failure_types, pending_repairs, time_remaining, trace>>
    /\ UNCHANGED <<health, pods, ready_replicas, podseq>>
    /\ UNCHANGED <<dispVars, fnVars, osioVars, kubeVars, oracleVars, factoryVars>>

\* get_failure(): the list is used up; main() catches NoSafeFailures.
GetFailureRaise ==
    /\ cpc = "get"
    /\ idx > Len(failure_types)
    /\ got' = "NoSafeFailures"
    /\ cpc' = "decide"
    /\ UNCHANGED <<failure_types, idx, gets, fail_instance, pending_repairs,
                   time_remaining, trace>>
    /\ UNCHANGED <<health, pods, ready_replicas, podseq>>
    /\ UNCHANGED <<dispVars, fnVars, osioVars, kubeVars, oracleVars, factoryVars>>

Called(op, f, res) == [op |-> op, id |-> f.id, res |-> res]

\* main() with the append ahead of the invoke().
InvokePushedFirst ==
    /\ cpc = "invoke"
    /\ pending_repairs' = Append(pending_repairs, fail_instance)
    /\ \E fail \in BOOLEAN :
        IF fail
        THEN /\ cpc' = "raised"
             /\ UNCHANGED <<pods, trace>>
        ELSE /\ pods' = [pods EXCEPT ![fail_instance.deployment] = @ \ {fail_instance.pod}]
             /\ trace' = Append(trace, Called("invoke", fail_instance, TRUE))
             /\ cpc' = "decide"
    /\ UNCHANGED <<failure_types, idx, gets, got, fail_instance, time_remaining>>
    /\ UNCHANGED <<health, ready_replicas, podseq>>
    /\ UNCHANGED <<dispVars, fnVars, osioVars, kubeVars, oracleVars, factoryVars>>

\* main(): fail_instance.invoke() and pending_repairs.append(fail_instance).
Invoke ==
    /\ cpc = "invoke"
    /\ \E fail \in BOOLEAN :
        IF fail
        THEN /\ cpc' = "raised"
             /\ UNCHANGED <<pods, pending_repairs, trace>>
        ELSE /\ pods' = [pods EXCEPT ![fail_instance.deployment] = @ \ {fail_instance.pod}]
             /\ pending_repairs' = Append(pending_repairs, fail_instance)
             /\ trace' = Append(trace, Called("invoke", fail_instance, TRUE))
             /\ cpc' = "decide"
    /\ UNCHANGED <<failure_types, idx, gets, got, fail_instance, time_remaining>>
    /\ UNCHANGED <<health, ready_replicas, podseq>>
    /\ UNCHANGED <<dispVars, fnVars, osioVars, kubeVars, oracleVars, factoryVars>>

\* main() without `or not fail_instance` in its condition.
CompoundEmpty ==
    /\ cpc = "decide"
    /\ Len(pending_repairs) < MaxPending
    /\ fail_instance' = NoFailure
    /\ cpc' = "loop"
    /\ UNCHANGED <<failure_types, idx, gets, got, pending_repairs, time_remaining, trace>>
    /\ UNCHANGED <<health, pods, ready_replicas, podseq>>
    /\ UNCHANGED <<dispVars, fnVars, osioVars, kubeVars, oracleVars, factoryVars>>

\* main(): random.random() <= additional_failure with a new failure: the next
\* turn of the loop follows at once.
Compound ==
    /\ cpc = "decide"
    /\ fail_instance # NoFailure
    /\ Len(pending_repairs) < MaxPending
    /\ fail_instance' = NoFailure
    /\ cpc' = "loop"
    /\ UNCHANGED <<failure_types, idx, gets, got, pending_repairs, time_remaining, trace>>
    /\ UNCHANGED <<health, pods, ready_replicas, podseq>>
    /\ UNCHANGED <<dispVars, fnVars, osioVars, kubeVars, oracleVars, factoryVars>>

\* main(): random.random() > additional_failure or not fail_instance.
NoCompound ==
    /\ cpc = "decide"
    /\ IF fail_instance # NoFailure
       THEN /\ time_remaining' = MitigationTimeout
            /\ cpc' = "await"
       ELSE /\ cpc' = "repair"
            /\ UNCHANGED time_remaining
    /\ UNCHANGED <<failure_types, idx, gets, got, fail_instance, pending_repairs, trace>>
    /\ UNCHANGED <<health, pods, ready_replicas, podseq>>
    /\ UNCHANGED <<dispVars, fnVars, osioVars, kubeVars, oracleVars, factoryVars>>

\* DeletePod.mitigated(): the watched Deployment shows all its replicas ready.
Mitigated(f) == ready_replicas[f.deployment] = Components[f.deployment].replicas

\* await_mitigation(): one test of its while condition, and the sleep.  The
\* watch of mitigated() has no timeout: on a Deployment that is not whole the
\* call returns false when the stream ends, or stays in the watch.
AwaitPoll ==
    /\ cpc = "await"
    /\ IF time_remaining > 0
       THEN IF Mitigated(fail_instance)
            THEN /\ trace' = Append(trace, Called("mitigated", fail_instance, TRUE))
                 /\ cpc' = "check"
                 /\ UNCHANGED time_remaining
            ELSE \/ /\ trace' = Append(trace, Called("mitigated", fail_instance, FALSE))
                    /\ time_remaining' = time_remaining - SleepTime
                    /\ UNCHANGED cpc
                 \/ /\ cpc' = "await-watch"
                    /\ UNCHANGED <<time_remaining, trace>>
       ELSE /\ cpc' = "check"
            /\ UNCHANGED <<time_remaining, trace>>
    /\ UNCHANGED <<failure_types, idx, gets, got, fail_instance, pending_repairs>>
    /\ UNCHANGED <<health, pods, ready_replicas, podseq>>
    /\ UNCHANGED <<dispVars, fnVars, osioVars, kubeVars, oracleVars, factoryVars>>

\* mitigated() in the while condition: the watch delivers the Deployment whole.
AwaitPollEvent ==
    /\ cpc = "await-watch"
    /\ Mitigated(fail_instance)
    /\ trace' = Append(trace, Called("mitigated", fail_instance, TRUE))
    /\ cpc' = "check"
    /\ UNCHANGED <<failure_types, idx, gets, got, fail_instance, pending_repairs,
                   time_remaining>>
    /\ UNCHANGED <<health, pods, ready_replicas, podseq>>
    /\ UNCHANGED <<dispVars, fnVars, osioVars, kubeVars, oracleVars, factoryVars>>

\* await_mitigation(): return instance.mitigated(), and main()'s assert.
AwaitReturn ==
    /\ cpc = "check"
    /\ IF Mitigated(fail_instance)
       THEN /\ trace' = Append(trace, Called("mitigated", fail_instance, TRUE))
            /\ cpc' = "repair"
       ELSE \/ /\ trace' = Append(trace, Called("mitigated", fail_instance, FALSE))
               /\ cpc' = "raised"
            \/ /\ cpc' = "check-watch"
               /\ UNCHANGED trace
    /\ UNCHANGED <<failure_types, idx, gets, got, fail_instance, pending_repairs,
                   time_remaining>>
    /\ UNCHANGED <<health, pods, ready_replicas, podseq>>
    /\ UNCHANGED <<dispVars, fnVars, osioVars, kubeVars, oracleVars, factoryVars>>

\* mitigated() in the return statement: the watch delivers the Deployment whole.
AwaitReturnEvent ==
    /\ cpc = "check-watch"
    /\ Mitigated(fail_instance)
    /\ trace' = Append(trace, Called("mitigated", fail_instance, TRUE))
    /\ cpc' = "repair"
    /\ UNCHANGED <<failure_types, idx, gets, got, fail_instance, pending_repairs,
                   time_remaining>>
    /\ UNCHANGED <<health, pods, ready_replicas, podseq>>
    /\ UNCHANGED <<dispVars, fnVars, osioVars, kubeVars, oracleVars, factoryVars>>

\* The order main() repairs the outstanding failures in.
Unreversed(pending) == pending

RepairOrder(pending) == Reverse(pending)

\* main(): pending_repairs.reverse(), repair() of each, pending_repairs.clear().
Repair ==
    /\ cpc = "repair"
    /\ trace' = trace \o [i \in 1..Len(pending_repairs) |->
                             Called("repair", RepairOrder(pending_repairs)[i], TRUE)]
    /\ pending_repairs' = <<>>
    /\ cpc' = "health"
    /\ UNCHANGED <<failure_types, idx, gets, got, fail_instance, time_remaining>>
    /\ UNCHANGED <<health, pods, ready_replicas, podseq>>
    /\ UNCHANGED <<dispVars, fnVars, osioVars, kubeVars, oracleVars, factoryVars>>

\* main() with the result of is_healthy() dropped.
HealthIgnored ==
    /\ cpc = "health"
    /\ cpc' = "pause"
    /\ UNCHANGED <<failure_types, idx, gets, got, fail_instance, pending_repairs,
                   time_remaining, trace>>
    /\ UNCHANGED <<health, pods, ready_replicas, podseq>>
    /\ UNCHANGED <<dispVars, fnVars, osioVars, kubeVars, oracleVars, factoryVars>>

\* main(): assert cephcluster.is_healthy(mitigation_timeout).
AssertHealthy ==
    /\ cpc = "health"
    /\ cpc' = IF IsHealthy THEN "pause" ELSE "raised"
    /\ UNCHANGED <<failure_types, idx, gets, got, fail_instance, pending_repairs,
                   time_remaining, trace>>
    /\ UNCHANGED <<health, pods, ready_replicas, podseq>>
    /\ UNCHANGED <<dispVars, fnVars, osioVars, kubeVars, oracleVars, factoryVars>>

\* main(): await_next_failure(), and fail_instance = None of the next turn.
AwaitNextFailure ==
    /\ cpc = "pause"
    /\ fail_instance' = NoFailure
    /\ trace' = <<>>
    /\ cpc' = "loop"
    /\ UNCHANGED <<failure_types, idx, gets, got, pending_repairs, time_remaining>>
    /\ UNCHANGED <<health, pods, ready_replicas, podseq>>
    /\ UNCHANGED <<dispVars, fnVars, osioVars, kubeVars, oracleVars, factoryVars>>

\* The storage system: the health of Ceph changes.
HealthChange ==
    /\ cpc # "raised"
    /\ health' \in HealthValues \ {health}
    /\ UNCHANGED <<cpc, failure_types, idx, gets, got, fail_instance, pending_repairs,
                   time_remaining, trace, pods, ready_replicas, podseq>>
    /\ UNCHANGED <<dispVars, fnVars, osioVars, kubeVars, oracleVars, factoryVars>>

\* The storage system: the status of a Deployment catches up with its Pods.
StatusUpdate ==
    /\ cpc # "raised"
    /\ \E d \in DOMAIN Components :
        /\ ready_replicas[d] # ReadyReplicas(Cardinality(pods[d]))
        /\ ready_replicas' = [ready_replicas EXCEPT ![d] = ReadyReplicas(Cardinality(pods[d]))]
    /\ UNCHANGED <<cpc, failure_types, idx, gets, got, fail_instance, pending_repairs,
                   time_remaining, trace, health, pods, podseq>>
    /\ UNCHANGED <<dispVars, fnVars, osioVars, kubeVars, oracleVars, factoryVars>>

\* The storage system: a Deployment makes a Pod in place of one it lacks.
PodReplaced ==
    /\ cpc # "raised"
    /\ podseq < MaxPods
    /\ \E d \in DOMAIN Components :
        /\ Cardinality(pods[d]) < Components[d].replicas
        /\ pods' = [pods EXCEPT ![d] = @ \cup {podseq + 1}]
    /\ podseq' = podseq + 1
    /\ UNCHANGED <<cpc, failure_types, idx, gets, got, fail_instance, pending_repairs,
                   time_remaining, trace, health, ready_replicas>>
    /\ UNCHANGED <<dispVars, fnVars, osioVars, kubeVars, oracleVars, factoryVars>>

\* No Dispatcher is part of a run of the chaos runner.
NoDispatcher ==
    /\ now = 0
    /\ queue = <<>>
    /\ nextId = 1
    /\ pc = "off"
    /\ cur = NoEvent
    /\ tnow = 0
    /\ log = <<>>
    /\ stalls = 0
    /\ ret = <<>>
    /\ calls = <<>>
    /\ trues = <<>>
    /\ seeded = <<>>
    /\ deploys = <<>>
    /\ pvcs = {}
    /\ ops = <<>>
    /\ tick = NoTick
    /\ created = 0
    /\ restarts = 0
    /\ flips = <<>>
    /\ made = {}
    /\ active_since = <<>>

(***************************************************************************)
(* A run of the chaos runner: main() with the prototypes it is given, on a *)
(* storage system that is whole and healthy.                               *)
(***************************************************************************)
InitChaos ==
    /\ cpc = "loop"
    /\ \E types \in SUBSET FailureTypes :
         failure_types \in {s \in [1..Cardinality(types) -> types] :
                               \A e \in types : \E i \in DOMAIN s : s[i] = e}
    /\ idx = 0
    /\ gets = <<>>
    /\ got = "none"
    /\ fail_instance = NoFailure
    /\ pending_repairs = <<>>
    /\ time_remaining = 0
    /\ trace = <<>>
    /\ health = "HEALTH_OK"
    /\ pods = [d \in DOMAIN Components |-> IF d = "mon-a" THEN {1} ELSE {2, 3}]
    /\ ready_replicas = [d \in DOMAIN Components |-> Components[d].replicas]
    /\ podseq = 3
    /\ NoDispatcher
    /\ NoKube
    /\ NoOracle
    /\ manifests = <<>>

NextChaos ==
    \/ GetFailure
    \/ TypeGet
    \/ GetFailureRaise
    \/ Invoke
    \/ Compound
    \/ NoCompound
    \/ AwaitPoll
    \/ AwaitPollEvent
    \/ AwaitReturn
    \/ AwaitReturnEvent
    \/ Repair
    \/ AssertHealthy
    \/ AwaitNextFailure
    \/ HealthChange
    \/ StatusUpdate
    \/ PodReplaced

SpecChaos == InitChaos /\ [][NextChaos]_vars

\* main() is one thread that keeps running; the storage system owes nothing.
FairSpecChaos ==
    SpecChaos /\ WF_vars(GetFailure \/ TypeGet \/ GetFailureRaise \/ Invoke \/ Compound
                             \/ NoCompound \/ AwaitPoll \/ AwaitPollEvent \/ AwaitReturn
                             \/ AwaitReturnEvent \/ Repair \/ AssertHealthy
                             \/ AwaitNextFailure)

(***************************************************************************)
(* The helpers of src/kube.py: call() with its handling of the status of   *)
(* an ApiException, and create_namespace().                                *)
(***************************************************************************)
\* Largest number of attempts of the API function in one call().
MaxAttempts == 3

\* The status of an ApiException, and of an attempt that raised none.
Statuses == {404, 409, 500}
Success == 200

\* What a `codes` dict can hold for a status; "none": the key is absent.
Handlings == {"retry", "ignore", "none"}

\* codes = {500: "retry"}, with no handling of 500.
NoDefault == [st \in Statuses |-> "none"]

DefaultCodes == [st \in Statuses |-> IF st = 500 THEN "retry" ELSE "none"]

\* codes.get() that never finds the status.
Unmapped(status) == "none"

\* action = codes.get(ex.status)
Action(status) == codes[status]

\* call(): one attempt of the API function and the handling of what it raised.
CallAttempt ==
    /\ kpc = "call"
    /\ \E status \in Statuses \cup {Success} :
        /\ responses' = Append(responses, status)
        /\ IF status = Success
           THEN /\ result' = "dict"
                /\ kpc' = "returned"
                /\ UNCHANGED slept
           ELSE IF Action(status) = "ignore"
           THEN /\ result' = "empty"
                /\ kpc' = "returned"
                /\ UNCHANGED slept
           ELSE IF Action(status) = "retry"
           THEN /\ Len(responses) + 1 < MaxAttempts
                /\ slept' = slept + 1
                /\ UNCHANGED <<result, kpc>>
           ELSE /\ result' = "ApiException"
                /\ kpc' = "raised"
                /\ UNCHANGED slept
    /\ UNCHANGED <<codes, given, namespaces, nsret>>
    /\ UNCHANGED <<dispVars, fnVars, osioVars, chaosVars, oracleVars, factoryVars>>

\* The names create_namespace() is called with.
Names == {"ns-1", "ns-2"}

\* list_namespace with field_selector metadata.name=name: the items.
Items(name) == {n \in namespaces : n = name}

\* create_namespace(): `ex.status != 409 or not existing_ok` with `and`.
ReraisedBoth(status, existing_ok) == status # 409 /\ ~existing_ok

Reraised(status, existing_ok) == status # 409 \/ ~existing_ok

\* create_namespace(name, existing_ok), with the status of what the API
\* raises on the create, if anything, that call() does not retry.
CreateNamespace ==
    /\ \E name \in Names, existing_ok \in BOOLEAN, denied \in BOOLEAN :
        LET status == IF denied THEN 403
                      ELSE IF name \in namespaces THEN 409 ELSE Success
            call == [name |-> name, existing_ok |-> existing_ok,
                     existed |-> name \in namespaces]
        IN  IF status = Success
            THEN /\ namespaces' = namespaces \cup {name}
                 /\ nsret' = call @@ [out |-> "created", status |-> Success,
                                      manifest |-> name]
            ELSE IF Reraised(status, existing_ok)
            THEN /\ nsret' = call @@ [out |-> "ApiException", status |-> status,
                                      manifest |-> ""]
                 /\ UNCHANGED namespaces
            ELSE /\ nsret' = call @@
                     IF Items(name) = {}
                     THEN [out |-> "IndexError", status |-> Success, manifest |-> ""]
                     ELSE [out |-> "existing", status |-> Success,
                           manifest |-> CHOOSE n \in Items(name) : TRUE]
                 /\ UNCHANGED namespaces
    /\ UNCHANGED <<kpc, codes, given, responses, slept, result>>
    /\ UNCHANGED <<dispVars, fnVars, osioVars, chaosVars, oracleVars, factoryVars>>

\* delete_namespace, as the tests call it between calls of create_namespace().
DeleteNamespace ==
    /\ \E name \in namespaces : namespaces' = namespaces \ {name}
    /\ UNCHANGED <<kpc, codes, given, responses, slept, result, nsret>>
    /\ UNCHANGED <<dispVars, fnVars, osioVars, chaosVars, oracleVars, factoryVars>>

(***************************************************************************)
(* Calls of the helpers: one call() with the `codes` its caller passes, or *)
(* none, and create_namespace() calls on a cluster without the names.      *)
(***************************************************************************)
InitKube ==
    /\ kpc = "call"
    /\ given \in BOOLEAN
    /\ codes \in IF given THEN [Statuses -> Handlings] ELSE {DefaultCodes}
    /\ responses = <<>>
    /\ slept = 0
    /\ result = "none"
    /\ namespaces = {}
    /\ nsret = NoReturn
    /\ NoDispatcher
    /\ NoChaos
    /\ NoOracle
    /\ manifests = <<>>

NextKube == CallAttempt \/ CreateNamespace \/ DeleteNamespace

SpecKube == InitKube /\ [][NextKube]_vars

(***************************************************************************)
(* CephCluster.is_healthy(timeout_seconds) (src/failure_ocs.py), followed  *)
(* step by step: each call has a frame of locals, and the call it makes to *)
(* itself inside its loop pushes a second one.  The CephCluster object is  *)
(* `health`, which the storage system changes at any time.                 *)
(***************************************************************************)
\* Largest timeout_seconds of a call.
MaxTimeout == 2

\* The seconds a read of the CephCluster object, or the code up to the next
\* time.time(), can take.
ReadTime == {0, 1}

Frame(timeout_seconds) ==
    [pc |-> "read", timeout_seconds |-> timeout_seconds, is_healthy |-> FALSE,
     deadline |-> 0]

Top == frames[Len(frames)]

SetTop(f) == [frames EXCEPT ![Len(frames)] = f]

\* A caller calls is_healthy(timeout_seconds).
OracleCall ==
    /\ hpc = "idle"
    /\ \E t \in 0..MaxTimeout : frames' = <<Frame(t)>>
    /\ hpc' = "running"
    /\ UNCHANGED <<hret, observed, sleeps>>
    /\ UNCHANGED <<dispVars, fnVars, osioVars, chaosVars, kubeVars, factoryVars>>

\* is_healthy = self._is_healthy(); deadline = time.time() + timeout_seconds.
\* The read goes through kube.call, which can raise ApiException.
OracleRead ==
    /\ hpc = "running"
    /\ Top.pc = "read"
    /\ \E d \in ReadTime, r \in {ReadHealthy(health), "ApiException"} :
        /\ now' = now + d
        /\ observed' = Append(observed, [crd |-> health, res |-> r])
        /\ IF r \in {"True", "False"}
           THEN /\ frames' = SetTop([Top EXCEPT !.is_healthy = (r = "True"),
                                                !.deadline = now' + Top.timeout_seconds,
                                                !.pc = "test"])
                /\ UNCHANGED <<hpc, hret>>
           ELSE /\ hpc' = "raised"
                /\ hret' = r
                /\ UNCHANGED frames
    /\ UNCHANGED sleeps
    /\ UNCHANGED <<queue, pc, cur, tnow, log, nextId, stalls, ret>>
    /\ UNCHANGED <<fnVars, osioVars, chaosVars, kubeVars, factoryVars>>

\* The loop test with the health left out of it.
WaitingUnhealthyOrNot(is_healthy, deadline, t) == deadline > t

\* while not is_healthy and deadline > time.time()
Waiting(is_healthy, deadline, t) == ~is_healthy /\ deadline > t

\* The loop test of the newest call; when it fails, return is_healthy: to the
\* caller, or to the call below, whose loop assigns it and tests again.
OracleTest ==
    /\ hpc = "running"
    /\ Top.pc = "test"
    /\ \E d \in ReadTime :
        /\ now' = now + d
        /\ IF Waiting(Top.is_healthy, Top.deadline, now')
           THEN /\ frames' = SetTop([Top EXCEPT !.pc = "sleep"])
                /\ UNCHANGED <<hpc, hret>>
           ELSE IF Len(frames) = 1
           THEN /\ frames' = SetTop([Top EXCEPT !.pc = "returned"])
                /\ hpc' = "returned"
                /\ hret' = IF Top.is_healthy THEN "True" ELSE "False"
           ELSE /\ frames' = [i \in 1..(Len(frames) - 1) |->
                                 IF i = Len(frames) - 1
                                 THEN [frames[i] EXCEPT !.is_healthy = Top.is_healthy,
                                                        !.pc = "test"]
                                 ELSE frames[i]]
                /\ UNCHANGED <<hpc, hret>>
    /\ UNCHANGED <<observed, sleeps>>
    /\ UNCHANGED <<queue, pc, cur, tnow, log, nextId, stalls, ret>>
    /\ UNCHANGED <<fnVars, osioVars, chaosVars, kubeVars, factoryVars>>

\* time.sleep(1)
OracleSleep ==
    /\ hpc = "running"
    /\ Top.pc = "sleep"
    /\ now' = now + 1
    /\ sleeps' = sleeps + 1
    /\ frames' = SetTop([Top EXCEPT !.pc = "call"])
    /\ UNCHANGED <<hpc, hret, observed>>
    /\ UNCHANGED <<queue, pc, cur, tnow, log, nextId, stalls, ret>>
    /\ UNCHANGED <<fnVars, osioVars, chaosVars, kubeVars, factoryVars>>

\* is_healthy = self.is_healthy(): the call inside the loop, with the default
\* timeout_seconds of 0.
OracleRecurse ==
    /\ hpc = "running"
    /\ Top.pc = "call"
    /\ frames' = Append(SetTop([Top EXCEPT !.pc = "wait"]), Frame(0))
    /\ UNCHANGED <<hpc, hret, observed, sleeps>>
    /\ UNCHANGED <<dispVars, fnVars, osioVars, chaosVars, kubeVars, factoryVars>>

InitOracle ==
    /\ hpc = "idle"
    /\ frames = <<>>
    /\ hret = "none"
    /\ observed = <<>>
    /\ sleeps = 0
    /\ manifests = <<>>
    /\ NoDispatcher
    /\ NoKube
    /\ cpc = "off"
    /\ failure_types = <<>>
    /\ idx = 0
    /\ gets = <<>>
    /\ got = "none"
    /\ fail_instance = NoFailure
    /\ pending_repairs = <<>>
    /\ time_remaining = 0
    /\ trace = <<>>
    /\ health \in HealthValues
    /\ pods = <<>>
    /\ ready_replicas = <<>>
    /\ podseq = 0

NextOracle ==
    \/ OracleCall
    \/ OracleRead
    \/ OracleTest
    \/ OracleSleep
    \/ OracleRecurse
    \/ HealthChange

SpecOracle == InitOracle /\ [][NextOracle]_vars

\* The interpreter runs the call on: each of its steps is taken in the end.  The
\* storage system owes no step.
FairSpecOracle ==
    SpecOracle /\ WF_vars(OracleCall \/ OracleRead \/ OracleTest \/ OracleSleep \/ OracleRecurse)

(***************************************************************************)
(* Properties of the Dispatcher.                                           *)
(***************************************************************************)
\* No execute() has raised so far.
NoRaise == \A i \in 1..Len(log) : log[i].out = "ok"

\* No Event has been constructed since run() began.
NoFollowOn == nextId = Len(seeded) + 1

\* The Events run() holds: the one popped and not yet executed, and the queue.
Pending == (IF pc = "exec" THEN {cur} ELSE {}) \cup SeqToSet(queue)

SeededDistinct ==
    \A i, j \in 1..Len(seeded) : i # j => seeded[i].when # seeded[j].when

\* C1: the Event run() has popped has the minimum `when` of the queue it was
\* popped from, and Events added before run() with pairwise-distinct `when`
\* and no follow-ons are executed in strictly ascending `when`.
C1_AscendingWhen ==
    /\ pc = "exec" => \A e \in SeqToSet(queue) : cur.when <= e.when
    /\ (NoFollowOn /\ SeededDistinct) =>
          \A i, j \in 1..Len(log) : i < j => log[i].when < log[j].when

\* Three Events with distinct `when`, added out of order, have all been run.
C1_Witness ==
    /\ pc = "returned"
    /\ NoFollowOn
    /\ SeededDistinct
    /\ Len(seeded) = 3
    /\ Len(log) = 3
    /\ seeded[1].when > seeded[2].when
    /\ seeded[1].when > seeded[3].when

\* C2: no execute() begins before the Event's `when`: run() is at an execute()
\* only with the clock at or past `when`, and so was every execute() so far.
C2_NotEarly ==
    /\ pc = "exec" => now >= cur.when
    /\ \A i \in 1..Len(log) : log[i].at >= log[i].when

\* An Event that run() slept for has been executed, at its `when`.
C2_Witness ==
    \E i \in 1..Len(log) : log[i].when > 0 /\ log[i].at = log[i].when

\* Every Event constructed so far has been executed exactly once.
ExecutedOnce ==
    \A id \in 1..(nextId - 1) :
        Cardinality({i \in 1..Len(log) : log[i].id = id}) = 1

\* C3: unless an execute() raises, run() returns (the follow-ons being
\* finitely many), and it returns with the queue empty and every Event ever
\* enqueued, seeded or follow-on, executed exactly once.
C3_RunDrains ==
    /\ <>(pc = "returned" \/ ~NoRaise)
    /\ [](pc = "returned" /\ NoRaise => queue = <<>> /\ ExecutedOnce)

\* run() has returned after executing seeded Events and follow-ons.
C3_Witness ==
    /\ pc = "returned"
    /\ NoRaise
    /\ Len(seeded) >= 2
    /\ nextId > Len(seeded) + 2
    /\ Len(log) = nextId - 1

\* C4: an exception raised by execute() leaves run() and reaches its caller,
\* with the queue as it was: the raising call is the last execute(), run() is
\* at "raised", and nothing was enqueued by it.
C4_RaiseReachesCaller ==
    \A i \in 1..Len(log) :
        log[i].out # "ok" => i = Len(log) /\ pc = "raised" /\ ret = <<>>

\* C5: a Dispatcher seeded with one OneShot (run at once when its `when` is
\* not later than the clock) invokes its function exactly once and enqueues
\* nothing, and run() ends, returning with the queue empty.
SingleOneShot == Len(seeded) = 1 /\ seeded[1].kind = "OneShot"

C5_OneShotOnce ==
    /\ [](SingleOneShot =>
            /\ calls[1] <= 1
            /\ NoFollowOn
            /\ (pc = "exec" /\ cur.when <= tnow => now = tnow \/ stalls > 0)
            /\ (pc = "returned" => calls[1] = 1 /\ queue = <<>>))
    /\ (SingleOneShot => <>(pc \in {"returned", "raised"}))

\* The single OneShot was due, ran, and run() has returned.
C5_Witness ==
    /\ SingleOneShot
    /\ seeded[1].when <= 0
    /\ pc = "returned"
    /\ NoRaise
    /\ calls[1] = 1

\* The Periodic events of action function f that run() holds.
InFlight(f) == {e \in Pending : e.kind = "Periodic" /\ e.fn = f}

\* C6: a Periodic whose function has returned True k times is invoked k times
\* while its k-th follow-on is pending and k+1 times once the function has
\* returned False (or raised); each True enqueues exactly one Periodic with
\* the same interval and function, a False enqueues nothing.
C6_PeriodicRepeats ==
    /\ \A f \in 1..Len(seeded) :
          seeded[f].kind = "Periodic" =>
            /\ Cardinality(InFlight(f)) <= 1
            /\ \A e \in InFlight(f) : e.interval = seeded[f].interval
            /\ calls[f] = IF InFlight(f) # {} THEN trues[f] ELSE trues[f] + 1
            /\ trues[f] = Cardinality({i \in 1..Len(log) : log[i].fn = f /\ log[i].res = "true"})
    /\ (log # <<>> /\ log[Len(log)].res = "true") =>
          /\ Len(ret) = 1
          /\ ret[1].kind = "Periodic"
          /\ ret[1].fn = log[Len(log)].fn
          /\ ret[1].interval = seeded[log[Len(log)].fn].interval
          /\ ret[1].when = log[Len(log)].at + ret[1].interval
          /\ (pc = "pop" => ret[1] \in SeqToSet(queue))
    /\ (log # <<>> /\ log[Len(log)].res = "false") => ret = <<>>

\* A Periodic returned True twice and then False: three invocations.
C6_Witness ==
    \E f \in 1..Len(seeded) :
        /\ seeded[f].kind = "Periodic"
        /\ trues[f] = 2
        /\ calls[f] = 3
        /\ log[Len(log)].fn = f
        /\ log[Len(log)].res = "false"
        /\ InFlight(f) = {}

(***************************************************************************)
(* Properties of the Lifecycle of a workload.                              *)
(***************************************************************************)
\* The last execute() was a Lifecycle tick of this branch, and it patched.
TickPatched(branch) ==
    /\ tick.branch = branch
    /\ ops = <<[op |-> "patch", name |-> tick.name]>>

\* The annotations of the Deployment of the last tick.
TickAnno == deploys[tick.name].anno

\* The annotation that holds the time of `action`.
AnnoTime(a, action) ==
    CASE action = "destroy" -> a["destroy_at"]
      [] action = "idle" -> a["idle_at"]
      [] OTHER -> a["health_at"]

\* osio-next-time is the least of the three times and osio-next-action names
\* one that equals it.
NextIsMin(a) ==
    /\ a["next_time"] \in {a["destroy_at"], a["idle_at"], a["health_at"]}
    /\ a["next_time"] <= a["destroy_at"]
    /\ a["next_time"] <= a["idle_at"]
    /\ a["next_time"] <= a["health_at"]
    /\ a["next_action"] \in {"destroy", "idle", "health"}
    /\ AnnoTime(a, a["next_action"]) = a["next_time"]

\* C7: in every reachable state, every Deployment has spec.replicas 0 or 1,
\* and every Deployment a Lifecycle tick has patched (it carries
\* osio-next-action) has osio-next-time = min(osio-destroy-at, osio-idle-at,
\* osio-health-at) and an osio-next-action that names a field equal to that
\* minimum.
C7_AnnotationInvariant ==
    \A n \in DOMAIN deploys :
        /\ deploys[n].replicas \in {0, 1}
        /\ "next_action" \in DOMAIN deploys[n].anno => NextIsMin(deploys[n].anno)

\* An idle tick has just patched a Deployment down to 0 replicas, and its
\* next action is a health check.
C7_Witness ==
    /\ TickPatched("idle")
    /\ deploys[tick.name].replicas = 0
    /\ TickAnno["next_action"] = "health"
    /\ TickAnno["next_time"] < TickAnno["destroy_at"]

\* C8: the first Lifecycle tick of a Deployment, reading the clock as t1 and
\* then t2 >= t1 and drawing the idle duration d, patches
\* osio-idle-at = t1 + max(d, 90) and osio-health-at = t2 + 90, sets
\* osio-next-time/osio-next-action to the minimum of the three times, and its
\* follow-on is one Lifecycle at osio-next-time; with osio-destroy-at later
\* than t1 + 90 and d below 90, osio-idle-at = osio-next-time = t1 + 90,
\* osio-next-action = idle and the follow-on is at t1 + 90.
C8_FirstTick ==
    TickPatched("init") =>
        /\ tick.t1 <= tick.t2
        /\ TickAnno["idle_at"] = tick.t1 + Max(tick.d, 90)
        /\ TickAnno["health_at"] = tick.t2 + 90
        /\ NextIsMin(TickAnno)
        /\ ret = <<Lifecycle(TickAnno["next_time"], tick.name)>>
        /\ (pc = "pop" => ret[1] \in SeqToSet(queue))
        /\ (tick.d < 90 /\ TickAnno["destroy_at"] > tick.t1 + 90 =>
              /\ TickAnno["idle_at"] = tick.t1 + 90
              /\ TickAnno["next_time"] = tick.t1 + 90
              /\ TickAnno["next_action"] = "idle"
              /\ ret[1].when = tick.t1 + 90)

\* A first tick drew a duration below 90 for a Deployment destroyed later
\* than 90 s from now, and patched it.
C8_Witness ==
    /\ TickPatched("init")
    /\ tick.d < 90
    /\ TickAnno["destroy_at"] > tick.t1 + 90
    /\ TickAnno["next_action"] = "idle"

\* C8 as stated: the first tick patches osio-idle-at = now + d.
C8_Unclamped ==
    TickPatched("init") => TickAnno["idle_at"] = tick.t1 + tick.d

\* C9: a due idle tick, reading the clock as t1 and then t2 >= t1 and drawing
\* the duration d, flips spec.replicas: from 0 it patches replicas = 1,
\* osio-idle-at = t1 + max(d, 90) and osio-health-at = t2 + 90; from 1 it
\* patches replicas = 0, osio-idle-at = t1 + max(d, 90) and
\* osio-health-at = t2 + 10; from 0 with d = 4 it patches
\* osio-idle-at = t1 + 90.
C9_IdleFlip ==
    TickPatched("idle") =>
        /\ tick.t1 <= tick.t2
        /\ tick.was \in {0, 1}
        /\ deploys[tick.name].replicas = 1 - tick.was
        /\ TickAnno["idle_at"] = tick.t1 + Max(tick.d, 90)
        /\ TickAnno["health_at"] = tick.t2 + (IF tick.was = 0 THEN 90 ELSE 10)
        /\ (tick.was = 0 /\ tick.d = 4 => TickAnno["idle_at"] = tick.t1 + 90)

\* An idle tick found 0 replicas, drew 4 as the active duration and patched.
C9_Witness ==
    /\ TickPatched("idle")
    /\ tick.was = 0
    /\ tick.d = 4
    /\ deploys[tick.name].replicas = 1

\* C9 as stated: the flip patches osio-idle-at = now + the drawn duration.
C9_Unclamped ==
    TickPatched("idle") => TickAnno["idle_at"] = tick.t1 + tick.d

\* C10: WORKAROUND_MIN_RUNTIME is enabled; the first tick and every idle flip
\* patch an osio-idle-at that is at least 90 s after the clock they read, and
\* two successive flips of a Deployment are at least 90 s apart.
C10_MinRuntime ==
    /\ WORKAROUND_MIN_RUNTIME
    /\ (TickPatched("init") \/ TickPatched("idle") =>
          TickAnno["idle_at"] - tick.t1 >= 90)
    /\ \A n \in DOMAIN flips :
          Len(flips[n]) = 2 => flips[n][2] - flips[n][1] >= 90

\* A Deployment has flipped twice, the second time drawing a duration below
\* 90.
C10_Witness ==
    /\ TickPatched("idle")
    /\ tick.d < 90
    /\ tick.name \in DOMAIN flips
    /\ Len(flips[tick.name]) = 2

\* The Lifecycle events for Deployment n that run() holds.
Lifecycles(n) == {e \in Pending : e.kind = "Lifecycle" /\ e.name = n}

\* run() is at the execute() of a Lifecycle whose Deployment carries
\* osio-next-action = action with osio-next-time <= now.
AtDue(action) ==
    /\ pc = "exec"
    /\ cur.kind = "Lifecycle"
    /\ cur.name \in DOMAIN deploys
    /\ "next_action" \in DOMAIN deploys[cur.name].anno
    /\ deploys[cur.name].anno["next_action"] = action
    /\ deploys[cur.name].anno["next_time"] <= now

\* C11: a due destroy tick that does not raise issues exactly one delete of
\* the Deployment followed by exactly one delete of the claim named by
\* osio-pvc and no patch, returns no follow-on, and leaves the Deployment and
\* the claim gone with no Lifecycle for that Deployment queued.
C11_DestroyTerminal ==
    [][AtDue("destroy") /\ pc' # "raised" =>
          /\ tick'.branch = "destroy"
          /\ ops' = <<[op |-> "delete_deployment", name |-> cur.name],
                      [op |-> "delete_pvc", name |-> deploys[cur.name].anno["pvc"]]>>
          /\ ret' = <<>>
          /\ cur.name \notin DOMAIN deploys'
          /\ deploys[cur.name].anno["pvc"] \notin pvcs'
          /\ pvcs' = pvcs \ {deploys[cur.name].anno["pvc"]}
          /\ \A n \in DOMAIN deploys' : deploys'[n] = deploys[n]
          /\ pc' = "pop"
          /\ \A e \in SeqToSet(queue') : ~(e.kind = "Lifecycle" /\ e.name = cur.name)]_vars

\* A destroy tick has deleted the Deployment, that had flipped before, and
\* its claim.
C11_Witness ==
    /\ tick.branch = "destroy"
    /\ tick.was = 0
    /\ pc = "pop"
    /\ Len(ops) = 2
    /\ ops[2].op = "delete_pvc"
    /\ tick.name \notin DOMAIN deploys
    /\ tick.name \notin pvcs

\* C12: a due health tick raises UnhealthyDeployment exactly when
\* spec.replicas = 1 and status.ready_replicas # 1, and the exception leaves
\* run() with the cluster and the queue as they were; a health tick that
\* raises nothing (a Deployment with 0 replicas never raises
\* UnhealthyDeployment) patches osio-health-at = now + 10, leaves replicas
\* and the other times alone, and returns one Lifecycle at osio-next-time.
C12_HealthTick ==
    [][AtDue("health") =>
          /\ tick'.branch = "health"
          /\ tick'.exc \in {"none", "ApiException", "UnhealthyDeployment"}
          /\ (tick'.exc = "UnhealthyDeployment") <=>
                (deploys[cur.name].replicas = 1 /\ tick'.ready # 1)
          /\ (tick'.exc # "none" =>
                /\ pc' = "raised"
                /\ ops' = <<>>
                /\ deploys' = deploys
                /\ queue' = queue)
          /\ (tick'.exc = "none" =>
                /\ pc' = "pop"
                /\ ops' = <<[op |-> "patch", name |-> cur.name]>>
                /\ deploys'[cur.name].anno["health_at"] = now + 10
                /\ deploys'[cur.name].replicas = deploys[cur.name].replicas
                /\ deploys'[cur.name].anno["idle_at"] = deploys[cur.name].anno["idle_at"]
                /\ deploys'[cur.name].anno["destroy_at"] = deploys[cur.name].anno["destroy_at"]
                /\ NextIsMin(deploys'[cur.name].anno)
                /\ ret' = <<Lifecycle(deploys'[cur.name].anno["next_time"], cur.name)>>
                /\ ret'[1] \in SeqToSet(queue')
                /\ Len(queue') = Len(queue) + 1)]_vars

\* A health tick found an active Deployment not ready and run() was left.
C12_Witness ==
    /\ tick.branch = "health"
    /\ tick.exc = "UnhealthyDeployment"
    /\ tick.was = 1
    /\ tick.ready = 0
    /\ pc = "raised"

\* C13: a Lifecycle tick that finds osio-next-action present and
\* osio-next-time > now changes nothing on the cluster (no patch, no delete,
\* no replicas change) and returns exactly one Lifecycle, scheduled at the
\* stored osio-next-time.
C13_EarlyTick ==
    [][(/\ pc = "exec"
        /\ cur.kind = "Lifecycle"
        /\ cur.name \in DOMAIN deploys
        /\ "next_action" \in DOMAIN deploys[cur.name].anno
        /\ deploys[cur.name].anno["next_time"] > now) =>
          /\ tick'.branch = "early"
          /\ deploys' = deploys
          /\ pvcs' = pvcs
          /\ ops' = <<>>
          /\ ret' = <<Lifecycle(deploys[cur.name].anno["next_time"], cur.name)>>
          /\ ret'[1] \in SeqToSet(queue')
          /\ Len(queue') = Len(queue) + 1
          /\ pc' = "pop"]_vars

\* An early tick has put back a Lifecycle at the stored time, which is later
\* than now.
C13_Witness ==
    /\ tick.branch = "early"
    /\ pc = "pop"
    /\ Len(ret) = 1
    /\ ret[1].when > now
    /\ ret[1].when = TickAnno["next_time"]
    /\ ops = <<>>

\* C14: a Creator execution that does not raise creates the claim and then
\* the Deployment, with 1 replica and stamped with osio-active, osio-idle,
\* osio-destroy-at and osio-pvc (the name of the claim it created) and no
\* osio-next-action, touches no other object, and returns exactly two
\* follow-ons: a Lifecycle at when=0 for the new Deployment and a Creator
\* whose `when` is not earlier than now.
C14_CreatorExecute ==
    [][pc = "exec" /\ cur.kind = "Creator" /\ pc' = "pop" =>
          /\ Len(ops') = 2
          /\ ops'[1].op = "create_pvc"
          /\ ops'[2].op = "create_deployment"
          /\ LET uid == ops'[2].name
                 claim == ops'[1].name
             IN  /\ uid \notin DOMAIN deploys
                 /\ claim \notin pvcs
                 /\ DOMAIN deploys' = DOMAIN deploys \cup {uid}
                 /\ pvcs' = pvcs \cup {claim}
                 /\ \A n \in DOMAIN deploys : deploys'[n] = deploys[n]
                 /\ deploys'[uid].replicas = 1
                 /\ DOMAIN deploys'[uid].anno = {"active", "idle", "destroy_at", "pvc"}
                 /\ deploys'[uid].anno["pvc"] = claim
                 /\ deploys'[uid].anno["active"] = 60
                 /\ deploys'[uid].anno["idle"] = 30
                 /\ deploys'[uid].anno["destroy_at"] >= now
                 /\ Len(ret') = 2
                 /\ ret'[1] = Lifecycle(0, uid)
                 /\ ret'[2].kind = "Creator"
                 /\ ret'[2].when >= now
                 /\ ret'[1] \in SeqToSet(queue')
                 /\ ret'[2] \in SeqToSet(queue')
                 /\ Len(queue') = Len(queue) + 2]_vars

\* A Creator has made a workload and returned its two follow-ons, the new
\* Creator being due later.
C14_Witness ==
    /\ pc = "pop"
    /\ Len(ops) = 2
    /\ ops[2].op = "create_deployment"
    /\ ops[2].name \in DOMAIN deploys
    /\ "next_action" \notin DOMAIN deploys[ops[2].name].anno
    /\ Len(ret) = 2
    /\ ret[2].when > now
    /\ Len(queue) = 2

\* The positions in the queue q of a Lifecycle for Deployment n.
LifecycleAt(q, n) == {i \in 1..Len(q) : q[i].kind = "Lifecycle" /\ q[i].name = n}

\* C15: when the generator is started again, resume() yields exactly one
\* Lifecycle, with when=0, for each Deployment of the namespace whose label
\* ocs-monkey/controller is osio (the label _get_workload stamps) and none
\* for any other Deployment, and it changes nothing on the cluster: the new
\* queue holds those Lifecycles and the Creator of start().
C15_Resume ==
    [][restarts' # restarts =>
          /\ deploys' = deploys
          /\ pvcs' = pvcs
          /\ \A n \in DOMAIN deploys :
                IF /\ "ocs-monkey/controller" \in DOMAIN deploys[n].labels
                   /\ deploys[n].labels["ocs-monkey/controller"] = "osio"
                THEN /\ Cardinality(LifecycleAt(queue', n)) = 1
                     /\ \A i \in LifecycleAt(queue', n) : queue'[i].when = 0
                ELSE LifecycleAt(queue', n) = {}
          /\ \A i \in 1..Len(queue') :
                \/ queue'[i].kind = "Lifecycle" /\ queue'[i].name \in DOMAIN deploys
                \/ queue'[i].kind = "Creator"
          /\ Cardinality({i \in 1..Len(queue') : queue'[i].kind = "Creator"}) = 1]_vars

\* The generator has just been started again beside a workload of its own
\* and the Deployments of others: one Lifecycle at when=0 is queued.
C15_Witness ==
    /\ restarts = 1
    /\ pc = "pop"
    /\ tick = NoTick
    /\ Len(queue) = 2
    /\ Cardinality(DOMAIN deploys) = 3
    /\ \E i \in 1..Len(queue) :
          /\ queue[i].kind = "Lifecycle"
          /\ queue[i].when = 0
          /\ deploys[queue[i].name].labels["ocs-monkey/controller"] = "osio"

\* After a restart, run() is at the execute() of a Lifecycle whose
\* Deployment has an osio-destroy-at that has passed.
PastDestroyTick ==
    /\ restarts > 0
    /\ pc = "exec"
    /\ cur.kind = "Lifecycle"
    /\ cur.name \in DOMAIN deploys
    /\ deploys[cur.name].anno["destroy_at"] <= now

\* The branch Lifecycle.execute() takes for a Deployment whose times have
\* passed: the stored osio-next-action, or the initialization without one.
StoredAction(deploy) ==
    IF "next_action" \in DOMAIN deploy.anno THEN deploy.anno["next_action"] ELSE "init"

\* C16: after a restart, a Lifecycle tick for a Deployment whose
\* osio-destroy-at has passed performs the osio-next-action that is stored
\* (the initialization when none is): the destroy only when destroy is what
\* is stored.  A stored health or idle action is performed first, and unless
\* it raises, its follow-on is due at once; after an initialization or an
\* idle flip the next action is destroy, after a health action it is idle or
\* destroy, so that the destroy is the third tick at the latest.
C16_ResumePastDestroy ==
    [][PastDestroyTick =>
          /\ tick'.branch = StoredAction(deploys[cur.name])
          /\ (tick'.branch = "destroy" /\ pc' = "pop" => cur.name \notin DOMAIN deploys')
          /\ (tick'.branch # "destroy" /\ pc' = "pop" =>
                /\ cur.name \in DOMAIN deploys'
                /\ Len(ret') = 1
                /\ ret'[1].name = cur.name
                /\ ret'[1].when <= now
                /\ deploys'[cur.name].anno["next_action"] \in
                      (IF tick'.branch = "health" THEN {"idle", "destroy"} ELSE {"destroy"}))]_vars

\* After a restart, a health tick has patched a Deployment whose
\* osio-destroy-at had passed, and the Deployment is still there.
C16_Witness ==
    /\ restarts > 0
    /\ TickPatched("health")
    /\ TickAnno["destroy_at"] <= tick.t0
    /\ TickAnno["next_action"] = "destroy"
    /\ pc = "pop"
    /\ ret[1].when <= now

\* C16 as stated: after a restart, the first tick for a resumed Deployment
\* (its Lifecycle is the one of resume(), at when=0) whose osio-destroy-at
\* has passed performs the destroy, whatever osio-next-action is stored.
C16_FirstTickDestroys ==
    [][(/\ PastDestroyTick
        /\ cur.when = 0
        /\ "next_action" \in DOMAIN deploys[cur.name].anno
        /\ deploys[cur.name].anno["next_time"] > 0) =>
          tick'.branch = "destroy"]_vars

\* C17: after a restart, whenever it was, running the queue of resume()
\* ends in the cluster state an uninterrupted generator ends in: once no
\* Lifecycle is left for any workload that was made (and run() was not left
\* by an exception), the Deployment and the claim of every workload made are
\* deleted and the Deployments of others are as they were.
C17_ResumeEquivalent ==
    (/\ restarts > 0
     /\ pc # "raised"
     /\ \A n \in made : Lifecycles(n) = {}) =>
        /\ made = {}
        /\ \A n \in DOMAIN Foreign : n \in DOMAIN deploys /\ deploys[n] = Foreign[n]


(***************************************************************************)
(* Properties of the chaos runner.                                         *)
(***************************************************************************)
\* Every get() call of the last get_failure() raised NoSafeFailures.
AllUnsafe == \A i \in DOMAIN gets : gets[i].out = "NoSafeFailures"

\* C18: get_failure(types) calls get() on the prototypes in the order the
\* shuffle left them in, each at most once, and goes on only past a get()
\* that raised NoSafeFailures.  It returns a failure exactly when a get()
\* succeeded, and then the one that get() returned, at once; it raises
\* NoSafeFailures exactly when get() of every prototype of the list raised
\* NoSafeFailures, an empty list included.
C18_GetFailure ==
    /\ Len(gets) <= Len(failure_types)
    /\ \A i \in DOMAIN gets : gets[i].type = failure_types[i]
    /\ \A i, j \in DOMAIN gets : i # j => gets[i].type # gets[j].type
    /\ \A i \in 1..(Len(gets) - 1) : gets[i].out = "NoSafeFailures"
    /\ got = "none" => AllUnsafe
    /\ got = "returned" <=> (gets # <<>> /\ gets[Len(gets)].out = "ok")
    /\ (got = "returned" /\ cpc = "invoke") => fail_instance = gets[Len(gets)].f
    /\ got = "NoSafeFailures" <=> (/\ got # "none"
                                   /\ Len(gets) = Len(failure_types)
                                   /\ AllUnsafe)

C18_Witness ==
    /\ got = "returned"
    /\ Len(gets) = 2
    /\ gets[1].out = "NoSafeFailures"
    /\ Len(failure_types) = 2


\* What get() of the type must not go ahead on: Ceph is not healthy, no
\* Deployment matches, or a matched Deployment lacks a ready replica.
Unsafe(type) ==
    \/ ReadHealthy(health) = "False"
    \/ Matched(type) = {}
    \/ \E d \in Matched(type) : Components[d].replicas # ready_replicas[d]

\* C19: a get() of a DeletePodType that the API answers, with a CephCluster
\* object the health oracle can read, raises
\* NoSafeFailures and selects no Pod whenever the health oracle reports
\* unhealthy, no Deployment matches, or any matched Deployment has
\* replicas # ready_replicas; so the failure get_failure() returns is of a
\* Deployment that was not degraded when it was selected, and of a Pod of it.
C19_SafeSelection ==
    [][(cpc = "get" /\ idx <= Len(failure_types) /\ gets' # gets) =>
        LET r == gets'[Len(gets')]
        IN  /\ (Unsafe(failure_types[idx]) /\ r.out \notin {"ApiException", "KeyError"}) =>
                   /\ r.out = "NoSafeFailures"
                   /\ r.f = NoFailure
                   /\ fail_instance' = fail_instance
                   /\ cpc' # "invoke"
            /\ cpc' = "invoke" =>
                   /\ ~Unsafe(failure_types[idx])
                   /\ fail_instance'.deployment \in Matched(failure_types[idx])
                   /\ fail_instance'.pod \in pods[fail_instance'.deployment]]_vars

\* Two Deployments match, of which mon-b has 2 replicas and 1 ready, and
\* get() has raised NoSafeFailures.
C19_Witness ==
    /\ cpc = "get"
    /\ idx = Len(gets) + 1
    /\ gets # <<>>
    /\ gets[Len(gets)].type = "rook-ceph-mon"
    /\ gets[Len(gets)].out = "NoSafeFailures"
    /\ health = "HEALTH_OK"
    /\ ready_replicas["mon-a"] = 1
    /\ ready_replicas["mon-b"] = 1


\* The failures the calls of one kind in the trace were made on, in order.
RECURSIVE CallsOf(_, _)
CallsOf(op, t) ==
    IF t = <<>> THEN <<>>
    ELSE IF t[1].op = op THEN <<t[1].id>> \o CallsOf(op, Tail(t))
    ELSE CallsOf(op, Tail(t))

\* C20: when the repair phase of main() has ended, repair() has been called
\* on exactly the failures invoked since the phase before it, once each, the
\* last invoked first, and the stack of pending repairs is empty.
C20_RepairLifo ==
    cpc \in {"health", "pause"} =>
        /\ CallsOf("repair", trace) = Reverse(CallsOf("invoke", trace))
        /\ \A i, j \in DOMAIN CallsOf("repair", trace) :
               i # j => CallsOf("repair", trace)[i] # CallsOf("repair", trace)[j]
        /\ pending_repairs = <<>>

\* Two failures compounded, and the repair phase after them has ended.
C20_Witness ==
    /\ cpc = "health"
    /\ CallsOf("invoke", trace) = <<1, 2>>
    /\ CallsOf("repair", trace) = <<2, 1>>


\* The failures of the stack, oldest first.
Stack == [i \in DOMAIN pending_repairs |-> pending_repairs[i].id]

Polls(id) == {i \in DOMAIN trace : trace[i].op = "mitigated" /\ trace[i].id = id}

\* C22: when main() does not compound and the stack of pending repairs is
\* not empty, it has awaited the mitigation of the newest failure of the
\* stack before it calls any repair(), also in a turn in which get_failure()
\* raised NoSafeFailures.
C22_AwaitTop ==
    [][(cpc = "repair" /\ cpc' = "health" /\ pending_repairs # <<>>) =>
          Polls(pending_repairs[Len(pending_repairs)].id) # {}]_vars


\* The place of the first call of the kind on the failure in the trace, 0 if none.
First(op, id, res) ==
    LET at == {i \in DOMAIN trace : trace[i].op = op /\ trace[i].id = id /\ trace[i].res = res}
    IN  IF at = {} THEN 0 ELSE CHOOSE i \in at : \A j \in at : i <= j

\* C23: every failure goes through invoke(), then a mitigated() that was
\* seen true, then repair(): no repair() is called on a failure that was not
\* invoked, nor on one whose mitigated() was not seen true before, the
\* failures of compounding turns included.
C23_Lifecycle ==
    \A i \in DOMAIN trace :
        trace[i].op = "repair" =>
            /\ First("invoke", trace[i].id, TRUE) \in 1..(i - 1)
            /\ First("mitigated", trace[i].id, TRUE) \in
                   (First("invoke", trace[i].id, TRUE) + 1)..(i - 1)


\* C24: main() starts the next turn at once, without mitigation and repair,
\* only in a turn that pushed a new failure.  A turn that pushed none goes
\* on to the repair phase, and from there the health wait and
\* await_next_failure() come before the next get_failure().
C24_CompoundOnlyAfterPush ==
    /\ [][(cpc = "decide" /\ cpc' = "loop") =>
            /\ got = "returned"
            /\ pending_repairs # <<>>
            /\ pending_repairs[Len(pending_repairs)] = fail_instance
            /\ trace # <<>>
            /\ trace[Len(trace)] = Called("invoke", fail_instance, TRUE)]_vars
    /\ [][(cpc = "decide" /\ cpc' # "decide" /\ got = "NoSafeFailures") =>
            cpc' = "repair"]_vars
    /\ [][(cpc = "repair" /\ cpc' # "repair") => cpc' = "health"]_vars
    /\ [][(cpc = "health" /\ cpc' # "health") => cpc' \in {"pause", "raised"}]_vars
    /\ [][(cpc # "loop" /\ cpc' = "loop") => cpc \in {"decide", "pause"}]_vars
    /\ [][(cpc # "get" /\ cpc' = "get") => cpc = "loop"]_vars

\* A turn that found no safe failure has gone through the repair phase and
\* the health wait, and pauses.
C24_Witness ==
    /\ cpc = "pause"
    /\ got = "NoSafeFailures"
    /\ CallsOf("repair", trace) = <<1>>


\* C25: when await_mitigation() returns false, or the health wait after
\* the repairs returns false, main() ends with the error: no failure is
\* invoked after it, and after a mitigation that timed out no repair() is
\* called on any pending failure.
C25_AbortOnFalse ==
    /\ [][(/\ cpc \in {"check", "check-watch"}
            /\ trace' = Append(trace, Called("mitigated", fail_instance, FALSE))) =>
            /\ cpc' = "raised"
            /\ pending_repairs' = pending_repairs
            /\ CallsOf("repair", trace') = <<>>]_vars
    /\ [][(cpc = "health" /\ cpc' # "health" /\ health # "HEALTH_OK") =>
            cpc' = "raised"]_vars
    /\ [][cpc = "raised" =>
            /\ cpc' = "raised"
            /\ CallsOf("invoke", trace') = CallsOf("invoke", trace)
            /\ CallsOf("repair", trace') = CallsOf("repair", trace)
            /\ pods' = pods]_vars

\* The mitigation of a failure timed out: main() has ended and the failure
\* is still on the stack, not repaired.
C25_Witness ==
    /\ cpc = "raised"
    /\ trace # <<>>
    /\ trace[Len(trace)].op = "mitigated"
    /\ ~trace[Len(trace)].res
    /\ time_remaining <= 0
    /\ pending_repairs # <<>>


\* C26: await_mitigation() returns true as soon as a call of mitigated()
\* has returned true, whatever a later call of mitigated() would return.
C26_TrueOnceSeen ==
    [][(/\ cpc \in {"check", "check-watch"}
        /\ cpc' \in {"repair", "raised"}
        /\ \E i \in Polls(fail_instance.id) : trace[i].res) =>
           cpc' = "repair"]_vars


\* C27: await_mitigation() always ends: on a failure that is never
\* mitigated it sleeps at most ceil(timeout / 10) times and returns false, so
\* the deadline bounds the wait.
C27_AwaitTerminates == (cpc = "await") ~> (cpc \in {"repair", "raised"})


(***************************************************************************)
(* Properties of the helpers of kube.py.                                   *)
(***************************************************************************)
\* What call() does about the i-th attempt: "done" when it raised nothing.
Handling(i) == IF responses[i] = Success THEN "done" ELSE codes[responses[i]]

\* The last attempt of a call() that has ended.
Last == Handling(Len(responses))

\* C28: call() makes a further attempt exactly after an attempt whose
\* status maps to retry, one second later, and returns the result of the
\* first attempt that raises nothing; a status that maps to ignore ends the
\* call with an empty dict, a status that is not mapped ends it with the
\* exception, both with no further attempt.  With no `codes` passed, 500 is
\* what is retried, and every other status raises.
C28_RetryPolicy ==
    /\ \A i \in 1..(Len(responses) - 1) : Handling(i) = "retry"
    /\ slept = Cardinality({i \in DOMAIN responses : Handling(i) = "retry"})
    /\ kpc = "call" =>
           /\ result = "none"
           /\ \A i \in DOMAIN responses : Handling(i) = "retry"
    /\ kpc \in {"returned", "raised"} =>
           /\ responses # <<>>
           /\ Last = "done" <=> (kpc = "returned" /\ result = "dict")
           /\ Last = "ignore" <=> (kpc = "returned" /\ result = "empty")
           /\ Last = "none" <=> (kpc = "raised" /\ result = "ApiException")
           /\ ~given =>
                  /\ responses[Len(responses)] # 500
                  /\ kpc = "raised" <=> responses[Len(responses)] \in {404, 409}

\* With the default policy, two 500s were retried and the third attempt's
\* result returned.
C28_Witness ==
    /\ ~given
    /\ responses = <<500, 500, Success>>
    /\ slept = 2
    /\ kpc = "returned"
    /\ result = "dict"


\* The attempts of the call that raised the status.
Raising(status) == {i \in DOMAIN responses : responses[i] = status}

\* C29 as claimed: whatever `codes` the caller passes, call() takes a 500 up
\* by trying again and never hands it to its caller.
C29_Never500 == \A i \in Raising(500) : Handling(i) = "retry"

\* C29: call() takes a 500 up by trying again whenever its caller passed no
\* `codes`, or `codes` that map 500 to retry; with `codes` that do not map
\* 500 the caller gets the exception, and with `codes` that map it to ignore
\* an empty dict.
C29_Default500 ==
    /\ (~given \/ codes[500] = "retry") =>
           \A i \in Raising(500) : i < Len(responses) \/ kpc = "call"
    /\ (kpc # "call" /\ responses[Len(responses)] = 500) =>
           /\ given
           /\ codes[500] = "none" <=> (kpc = "raised" /\ result = "ApiException")
           /\ codes[500] = "ignore" <=> (kpc = "returned" /\ result = "empty")

\* The caller passed `codes` that handle 404 and 500, and a 500 was taken up.
C29_Witness ==
    /\ given
    /\ codes[404] = "ignore"
    /\ codes[500] = "retry"
    /\ responses = <<500, Success>>
    /\ kpc = "returned"
    /\ result = "dict"


\* C30: create_namespace(name) on a name that does not exist makes the
\* Namespace and returns its manifest, metadata.name = name.  On a name that
\* exists it raises the ApiException of status 409 when existing_ok is
\* false; when existing_ok is true it returns the manifest of the Namespace
\* that exists, metadata.name = name, and leaves the Namespaces as they are,
\* so that calling it again gives the same.
C30_CreateNamespace ==
    /\ [](nsret.out # "none" =>
            /\ (~nsret.existed /\ nsret.status # 403) =>
                   (nsret.out = "created" /\ nsret.manifest = nsret.name)
            /\ (nsret.existed /\ ~nsret.existing_ok /\ nsret.status # 403) =>
                   (nsret.out = "ApiException" /\ nsret.status = 409)
            /\ (nsret.existed /\ nsret.existing_ok /\ nsret.status # 403) =>
                   (nsret.out = "existing" /\ nsret.manifest = nsret.name))
    /\ [][(nsret' # nsret /\ nsret'.out # "created") => namespaces' = namespaces]_vars
    /\ [][(nsret' # nsret /\ nsret'.out = "created") =>
            (nsret'.name \notin namespaces
                /\ namespaces' = namespaces \cup {nsret'.name})]_vars

\* create_namespace(name, existing_ok=True) has returned the Namespace that
\* was there, next to another one.
C30_Witness ==
    /\ nsret.out = "existing"
    /\ nsret.existed
    /\ nsret.existing_ok
    /\ nsret.manifest = "ns-1"
    /\ namespaces = {"ns-1", "ns-2"}

(***************************************************************************)
(* The workload factory, _get_workload() (src/osio.py), called again and   *)
(* again as the Creators of a run call it.                                 *)
(***************************************************************************)
\* random.randrange(UidRange): the model's 999999999.
UidRange == 5

\* Largest number of calls of the factory.
MaxWorkloads == 3

\* f"{prefix}{unique_id}", unique_id = str(n): the decimal digits of n behind
\* the prefix.
RECURSIVE Str(_)
Str(n) == IF n < 10 THEN <<n>> ELSE Append(Str(n \div 10), n % 10)

Fmt(prefix, unique_id) == <<prefix>> \o unique_id

\* _get_workload() when random.randrange() gives n.
GetWorkload(n) ==
    [deployment |-> [name |-> Fmt("osio-worker-", Str(n)),
                     matchLabels |-> Str(n),
                     labels |-> Str(n),
                     claimName |-> Fmt("pvc-", Str(n))],
     pvc |-> [name |-> Fmt("pvc-", Str(n))]]

\* One call of _get_workload().
Factory ==
    /\ Len(manifests) < MaxWorkloads
    /\ \E n \in 0..(UidRange - 1) :
        manifests' = Append(manifests, GetWorkload(n))
    /\ UNCHANGED <<dispVars, fnVars, osioVars, chaosVars, kubeVars, oracleVars>>

InitFactory ==
    /\ manifests = <<>>
    /\ NoDispatcher
    /\ NoChaos
    /\ NoKube
    /\ NoOracle

NextFactory == Factory

SpecFactory == InitFactory /\ [][NextFactory]_vars

\* C34: no two calls of the factory give the same Deployment name or the same
\* claim name, and in the manifests of one call the claimName of the Deployment
\* is the name of the claim and the uid of the Deployment's name is the uid of
\* its match labels, of its Pod labels and of the claim's name.
C34_Unique ==
    /\ \A i, j \in 1..Len(manifests) :
          i # j => /\ manifests[i].deployment.name # manifests[j].deployment.name
                   /\ manifests[i].pvc.name # manifests[j].pvc.name
    /\ \A i \in 1..Len(manifests) :
          LET m == manifests[i]
          IN  /\ m.deployment.claimName = m.pvc.name
              /\ m.deployment.name = Fmt("osio-worker-", m.deployment.matchLabels)
              /\ m.deployment.labels = m.deployment.matchLabels
              /\ m.pvc.name = Fmt("pvc-", m.deployment.matchLabels)

(***************************************************************************)
(* Properties of the health oracle, CephCluster.is_healthy().              *)
(***************************************************************************)
\* C31: every read of the CephCluster object gives healthy exactly when
\* status.ceph.health is "HEALTH_OK", and gives not healthy, never an error, for
\* an object with no status, no status.ceph or no status.ceph.health.
C31_HealthyIff ==
    \A i \in 1..Len(observed) :
        observed[i].res # "ApiException" =>
            observed[i].res = IF observed[i].crd = "HEALTH_OK" THEN "True" ELSE "False"


C33_UnknownFails ==
    [][(Unknown /\ pc' # pc) =>
          /\ pc' = "raised"
          /\ tick'.exc = "AssertionError"
          /\ ops' = <<>>
          /\ ret' = <<>>
          /\ queue' = queue
          /\ deploys' = deploys
          /\ pvcs' = pvcs]_vars

\* A tick has raised on an osio-next-action that another writer has set.
C33_Witness ==
    /\ pc = "raised"
    /\ tick.branch = "unknown"
    /\ tick.exc = "AssertionError"
    /\ deploys[tick.name].anno["next_action"] = "other"
    /\ deploys[tick.name].anno["next_time"] <= now

\* The places of the queue that hold a Lifecycle of the Deployment n.
LifecyclesAt(n) == {i \in 1..Len(queue) : queue[i].kind = "Lifecycle" /\ queue[i].name = n}

\* C35: whenever run() is between two execute() calls, the queue holds exactly
\* one Creator, exactly one Lifecycle for each Deployment of the generator that
\* is in the cluster, and no other Lifecycle: none for a Deployment that has
\* been destroyed.
C35_QueueShape ==
    pc = "pop" =>
        /\ Cardinality({i \in 1..Len(queue) : queue[i].kind = "Creator"}) = 1
        /\ \A n \in Selected : Cardinality(LifecyclesAt(n)) = 1
        /\ \A i \in 1..Len(queue) :
              queue[i].kind = "Lifecycle" => queue[i].name \in Selected

\* The generator has been started again over a Deployment it made before, has
\* run a tick of it since, and is between two execute() calls with that
\* Deployment still in the cluster.
C35_Witness ==
    /\ pc = "pop"
    /\ restarts = 1
    /\ tick.name \in Selected
    /\ tick.branch \in {"idle", "health"}
    /\ Cardinality(LifecyclesAt(tick.name)) = 1

\* The model's horizon: the Creator that would make workload MaxCreates + 1 has
\* been popped, and run() goes no further.
Horizon == pc = "exec" /\ cur.kind = "Creator" /\ created >= MaxCreates

Stamped == {"destroy_at", "pvc", "active", "idle"}

\* C38: a health tick that raises UnhealthyDeployment issues no patch and no
\* delete and leaves the cluster as it was, the Deployment still carrying
\* osio-next-action = health with an osio-next-time that has passed; and no
\* Lifecycle tick changes osio-destroy-at, osio-pvc, osio-active or osio-idle
\* of a Deployment it leaves in the cluster.
C38_RaiseLeavesCluster ==
    [][(pc = "exec" /\ cur.kind = "Lifecycle" /\ pc' # pc) =>
          /\ \A n \in DOMAIN deploys \cap DOMAIN deploys' :
                \A k \in Stamped \cap DOMAIN deploys[n].anno :
                    /\ k \in DOMAIN deploys'[n].anno
                    /\ deploys'[n].anno[k] = deploys[n].anno[k]
          /\ tick'.exc = "UnhealthyDeployment" =>
                /\ pc' = "raised"
                /\ ops' = <<>>
                /\ deploys' = deploys
                /\ pvcs' = pvcs
                /\ deploys'[cur.name].anno["next_action"] = "health"
                /\ deploys'[cur.name].anno["next_time"] <= now']_vars

\* A health tick has raised UnhealthyDeployment on a Deployment that earlier
\* ticks have patched: it carries all four stamped annotations, osio-next-action
\* = health and an osio-next-time that has passed.
C38_Witness ==
    /\ pc = "raised"
    /\ tick.branch = "health"
    /\ tick.exc = "UnhealthyDeployment"
    /\ ops = <<>>
    /\ Stamped \subseteq DOMAIN deploys[tick.name].anno
    /\ deploys[tick.name].anno["next_action"] = "health"
    /\ deploys[tick.name].anno["next_time"] <= now
    /\ deploys[tick.name].anno["destroy_at"] > now

\* C39: of the three times of a Deployment a tick has patched, osio-next-action
\* names osio-destroy-at when it is the least, also when another equals it;
\* else osio-idle-at when it is the least, also when osio-health-at equals it;
\* else osio-health-at.  So the tick that runs when the destroy time has come
\* together with another time destroys the workload: it neither flips it nor
\* checks its health.
C39_TiePriority ==
    /\ [](\A n \in DOMAIN deploys :
            "next_action" \in DOMAIN deploys[n].anno =>
                LET a == deploys[n].anno
                IN  /\ (a["destroy_at"] <= a["idle_at"] /\ a["destroy_at"] <= a["health_at"])
                          => a["next_action"] = "destroy"
                    /\ (a["idle_at"] < a["destroy_at"] /\ a["idle_at"] <= a["health_at"])
                          => a["next_action"] = "idle"
                    /\ (a["health_at"] < a["destroy_at"] /\ a["health_at"] < a["idle_at"])
                          => a["next_action"] = "health")
    /\ [][(/\ pc = "exec"
           /\ cur.kind = "Lifecycle"
           /\ pc' # pc
           /\ cur.name \in DOMAIN deploys
           /\ "next_action" \in DOMAIN deploys[cur.name].anno
           /\ deploys[cur.name].anno["next_time"] <= now
           /\ deploys[cur.name].anno["destroy_at"] = deploys[cur.name].anno["next_time"]) =>
              tick'.branch = "destroy"]_vars

\* A tick has patched a Deployment whose osio-destroy-at, osio-idle-at and
\* osio-health-at are all the same time, with osio-next-action = destroy.
C39_Witness ==
    /\ TickPatched("init")
    /\ TickAnno["destroy_at"] = TickAnno["idle_at"]
    /\ TickAnno["destroy_at"] = TickAnno["health_at"]
    /\ TickAnno["next_action"] = "destroy"

(***************************************************************************)
(* Properties of the chaos loop, continued.                                *)
(***************************************************************************)
\* C40: when invoke() deletes a Pod, every Deployment matched by the prototype
\* of the failure has spec.replicas = status.ready_replicas at that moment, and
\* no failure that is still outstanding is of a Deployment of that prototype.
C40_NoDegradedInvoke ==
    [][(cpc = "invoke" /\ cpc' = "decide") =>
          LET type == Components[fail_instance.deployment].app
          IN  /\ \A d \in Matched(type) : ~Degraded(d)
              /\ \A i \in 1..Len(pending_repairs) :
                    Components[pending_repairs[i].deployment].app # type]_vars

=============================================================================
